---- MODULE Spec2Model ----
(***************************************************************************)
(* Model of the "Check Now" pipeline of web-monitor:                        *)
(*   lib/controllers/check.controller.ts  (runCheck, saveErrorCheck,        *)
(*                                         fetchPageHtml)                   *)
(*   app/api/check/[id]/route.ts          (POST, buildErrorResponse)        *)
(*   lib/gemini.ts                        (executeGeminiRequest, ...)       *)
(*   lib/content-extractor.ts             (extractReadableText, hash)       *)
(*   lib/errors                           (handleError, AppError)           *)
(*   supabase/schema.sql                  (tables and their constraints)    *)
(* A text is a sequence of one-character strings.  NULL is SQL NULL / JS    *)
(* null.  Every await of a handler is a separate step, so that requests     *)
(* interleave exactly where the code yields.                                *)
(***************************************************************************)
EXTENDS Integers, Sequences, FiniteSets, TLC

\* a nullable value is NULL or Some(v)
NULL == << >>
Some(v) == << v >>
Val(o) == o[1]

\* ------------------------------------------------------------------------
\* Bounds of the model
\* ------------------------------------------------------------------------
\* number of check requests started in one behaviour
MaxChecks == 3
\* number of requests of any kind started in one behaviour of SpecLinks
MaxRequests == 2
\* number of link_checks rows the longest stored history of SpecHistory starts with
MaxSeededChecks == 9

\* ------------------------------------------------------------------------
\* Program constants
\* ------------------------------------------------------------------------
FETCH_TIMEOUT_MS == 8000
ROUTE_FETCH_TIMEOUT_S == 20
UUID_LENGTH == 36
DIFF_TEXT_MAX_CHARS == 1500
BASELINE_TEXT_MAX_CHARS == 3000
MIN_CONTENT_CHARS == 10
MAIN_MIN_CHARS == 50
MAX_RETRIES == 2
MAX_LINKS == 8
HISTORY_LIMIT == 5
HashBase == 31
HashModulus == 65521

\* ------------------------------------------------------------------------
\* Texts
\* ------------------------------------------------------------------------
Alphabet ==
    << " ", "\n", "\t", "a", "b", "e", "g", "h", "i", "l", "m", "o", "p", "t", "x" >>

Code(c) == CHOOSE i \in 1..Len(Alphabet) : Alphabet[i] = c

IsHSpace(c) == c \in {" ", "\t"}
IsSpace(c) == c \in {" ", "\t", "\n"}

\* "hello": 5 characters
T_HELLO == << "h", "e", "l", "l", "o" >>
\* "alpha bet": 9 characters
T_NINE == << "a", "l", "p", "h", "a", " ", "b", "e", "t" >>
\* "alpha beta": exactly 10 characters
T_A == << "a", "l", "p", "h", "a", " ", "b", "e", "t", "a" >>
\* "alpha gamma"
T_B == << "a", "l", "p", "h", "a", " ", "g", "a", "m", "m", "a" >>
\* "alpha\nbeta": T_A with the blank replaced by a newline
T_A_NL == << "a", "l", "p", "h", "a", "\n", "b", "e", "t", "a" >>

\* String.prototype.slice(0, n)
Slice(t, n) == SubSeq(t, 1, IF Len(t) < n THEN Len(t) ELSE n)

RECURSIVE TrimLeft(_)
TrimLeft(t) ==
    IF t = << >> THEN t
    ELSE IF IsSpace(Head(t)) THEN TrimLeft(Tail(t)) ELSE t

RECURSIVE TrimRight(_)
TrimRight(t) ==
    IF t = << >> THEN t
    ELSE IF IsSpace(t[Len(t)]) THEN TrimRight(SubSeq(t, 1, Len(t) - 1)) ELSE t

\* String.prototype.trim()
Trim(t) == TrimRight(TrimLeft(t))

\* the text after a leading run of blanks and tabs
RECURSIVE TrimLeftH(_)
TrimLeftH(t) ==
    IF t = << >> THEN t
    ELSE IF IsHSpace(Head(t)) THEN TrimLeftH(Tail(t)) ELSE t

\* .replace(/^[ \t]+|[ \t]+$/gm, ""): blanks and tabs at either end of a line
RECURSIVE TrimLines(_, _)
TrimLines(t, atLineStart) ==
    IF t = << >> THEN t
    ELSE IF IsHSpace(Head(t))
         THEN LET rest == TrimLeftH(Tail(t)) IN
              IF atLineStart \/ rest = << >> \/ Head(rest) = "\n"
              THEN TrimLines(rest, atLineStart)
              ELSE << Head(t) >> \o TrimLines(Tail(t), FALSE)
         ELSE << Head(t) >> \o TrimLines(Tail(t), Head(t) = "\n")

\* .replace(/\n{3,}/g, "\n\n")
RECURSIVE CollapseNewlines(_, _)
CollapseNewlines(t, run) ==
    IF t = << >> THEN t
    ELSE IF Head(t) = "\n"
         THEN IF run >= 2 THEN CollapseNewlines(Tail(t), run)
              ELSE << "\n" >> \o CollapseNewlines(Tail(t), run + 1)
         ELSE << Head(t) >> \o CollapseNewlines(Tail(t), 0)

\* .replace(/[ \t]+/g, " ")
RECURSIVE CollapseSpaces(_)
CollapseSpaces(t) ==
    IF t = << >> THEN t
    ELSE IF IsHSpace(Head(t))
         THEN << " " >> \o CollapseSpaces(TrimLeftH(Tail(t)))
         ELSE << Head(t) >> \o CollapseSpaces(Tail(t))

\* the whitespace clean-up at the end of extractReadableText
NormalizeWhitespace(t) ==
    Trim(CollapseSpaces(CollapseNewlines(TrimLines(t, TRUE), 0)))

\* ------------------------------------------------------------------------
\* Pages and text extraction (content-extractor.ts)
\* A page is its title text and the elements of its body in document order;
\* an element is the first selector it matches and the text it holds.
\* ------------------------------------------------------------------------
RemovedSelectors ==
    { "script", "style", "noscript", "iframe", "svg", "nav", "footer", "header",
      ".nav", ".footer", ".header", ".menu", ".sidebar", "#nav", "#footer", "#header" }

MainSelectors == { "main", "article", "[role='main']", "#main", "#content" }

RECURSIVE ConcatText(_)
ConcatText(els) ==
    IF els = << >> THEN << >> ELSE Head(els).text \o ConcatText(Tail(els))

RECURSIVE SelectElements(_, _)
SelectElements(els, keep) ==
    IF els = << >> THEN << >>
    ELSE IF Head(els).sel \in keep
         THEN << Head(els) >> \o SelectElements(Tail(els), keep)
         ELSE SelectElements(Tail(els), keep)

\* the extraction with script elements left in the document
extractReadableText_keepsScripts(html) ==
    LET kept == SelectElements(html.body,
                               { e.sel : e \in { html.body[i] : i \in DOMAIN html.body } }
                                   \ (RemovedSelectors \ { "script" }))
        mains == SelectElements(kept, MainSelectors)
        bodyText == ConcatText(kept)
        contentText == IF mains # << >> THEN Head(mains).text ELSE bodyText
        rawText1 == IF Len(Trim(contentText)) < MAIN_MIN_CHARS /\ mains # << >>
                    THEN bodyText ELSE contentText
        rawText == IF Trim(rawText1) = << >> THEN html.title \o bodyText ELSE rawText1
    IN  NormalizeWhitespace(rawText)

\* (cheerio.load accepts every string, so the catch block's tag-stripping fallback
\* is not entered for the pages of this model)
extractReadableText(html) ==
    LET kept == SelectElements(html.body,
                               { e.sel : e \in { html.body[i] : i \in DOMAIN html.body } }
                                   \ RemovedSelectors)
        mains == SelectElements(kept, MainSelectors)
        bodyText == ConcatText(kept)
        contentText == IF mains # << >> THEN Head(mains).text ELSE bodyText
        rawText1 == IF Len(Trim(contentText)) < MAIN_MIN_CHARS /\ mains # << >>
                    THEN bodyText ELSE contentText
        rawText == IF Trim(rawText1) = << >> THEN html.title \o bodyText ELSE rawText1
    IN  NormalizeWhitespace(rawText)

\* computeContentHash: SHA-256 of the UTF-8 bytes as lowercase hex.  The digest is
\* modelled by a polynomial digest over the character codes: deterministic,
\* sensitive to every character (whitespace included), of fixed width.
RECURSIVE Digest(_, _)
Digest(t, h) ==
    IF t = << >> THEN h
    ELSE Digest(Tail(t), (h * HashBase + Code(Head(t))) % HashModulus)

computeContentHash(content) == Digest(content, 7)

\* ------------------------------------------------------------------------
\* Word diff (package "diff", diffWords) and the excerpts built from it
\* ------------------------------------------------------------------------
\* maximal runs of whitespace and of non-whitespace characters
RECURSIVE Tokenize(_, _)
Tokenize(t, cur) ==
    IF t = << >> THEN (IF cur = << >> THEN << >> ELSE << cur >>)
    ELSE IF cur = << >> \/ IsSpace(Head(t)) = IsSpace(cur[1])
         THEN Tokenize(Tail(t), Append(cur, Head(t)))
         ELSE << cur >> \o Tokenize(Tail(t), << Head(t) >>)

\* diffWords compares with ignoreWhitespace: two whitespace tokens are equal
TokenEquals(l, r) == l = r \/ (IsSpace(l[1]) /\ IsSpace(r[1]))

RECURSIVE LcsLen(_, _)
LcsLen(a, b) ==
    IF a = << >> \/ b = << >> THEN 0
    ELSE IF TokenEquals(Head(a), Head(b)) THEN 1 + LcsLen(Tail(a), Tail(b))
    ELSE LET x == LcsLen(Tail(a), b)
             y == LcsLen(a, Tail(b))
         IN  IF x >= y THEN x ELSE y

Part(v, kind) == [value |-> v, added |-> kind = "added", removed |-> kind = "removed"]

RECURSIVE TokenDiff(_, _)
TokenDiff(a, b) ==
    IF a = << >> /\ b = << >> THEN << >>
    ELSE IF a = << >> THEN << Part(Head(b), "added") >> \o TokenDiff(a, Tail(b))
    ELSE IF b = << >> THEN << Part(Head(a), "removed") >> \o TokenDiff(Tail(a), b)
    ELSE IF TokenEquals(Head(a), Head(b))
         THEN << Part(Head(b), "common") >> \o TokenDiff(Tail(a), Tail(b))
    ELSE IF LcsLen(Tail(a), b) >= LcsLen(a, Tail(b))
         THEN << Part(Head(a), "removed") >> \o TokenDiff(Tail(a), b)
         ELSE << Part(Head(b), "added") >> \o TokenDiff(a, Tail(b))

\* consecutive parts of one kind are one part
RECURSIVE MergeParts(_)
MergeParts(ps) ==
    IF Len(ps) < 2 THEN ps
    ELSE IF ps[1].added = ps[2].added /\ ps[1].removed = ps[2].removed
         THEN MergeParts(<< [ps[1] EXCEPT !.value = ps[1].value \o ps[2].value] >>
                         \o SubSeq(ps, 3, Len(ps)))
         ELSE << ps[1] >> \o MergeParts(Tail(ps))

diffWords(oldStr, newStr) ==
    MergeParts(TokenDiff(Tokenize(oldStr, << >>), Tokenize(newStr, << >>)))

\* parts.filter(p => p[kind]).map(p => p.value).join(" ")
RECURSIVE JoinValues(_, _)
JoinValues(ps, kind) ==
    IF ps = << >> THEN << >>
    ELSE LET rest == JoinValues(Tail(ps), kind)
             hit == IF kind = "added" THEN Head(ps).added ELSE Head(ps).removed
             more == \E i \in 2..Len(ps) :
                        IF kind = "added" THEN ps[i].added ELSE ps[i].removed
         IN  IF ~hit THEN rest
             ELSE IF more THEN Head(ps).value \o << " " >> \o rest
             ELSE Head(ps).value

\* the added text whole
addedText_uncapped(diffResult) == JoinValues(diffResult, "added")

addedText(diffResult) == Slice(JoinValues(diffResult, "added"), DIFF_TEXT_MAX_CHARS)
removedText(diffResult) == Slice(JoinValues(diffResult, "removed"), DIFF_TEXT_MAX_CHARS)

\* ------------------------------------------------------------------------
\* Identifiers (constants.ts, UUID_REGEX)
\* ------------------------------------------------------------------------
HexChars ==
    { "0", "1", "2", "3", "4", "5", "6", "7", "8", "9",
      "a", "b", "c", "d", "e", "f", "A", "B", "C", "D", "E", "F" }

DashPositions == { 9, 14, 19, 24 }

UuidRegexTest_shapeOnly(str) ==
    /\ Len(str) = UUID_LENGTH
    /\ \A i \in DashPositions : str[i] = "-"

\* /^[0-9a-f]{8}-[0-9a-f]{4}-[0-9a-f]{4}-[0-9a-f]{4}-[0-9a-f]{12}$/i
UuidRegexTest(str) ==
    /\ Len(str) = UUID_LENGTH
    /\ \A i \in 1..Len(str) :
          IF i \in DashPositions THEN str[i] = "-" ELSE str[i] \in HexChars

UuidOf(c) == [i \in 1..UUID_LENGTH |-> IF i \in DashPositions THEN "-" ELSE c]

\* the identifiers requests carry: the stored link, a well-formed identifier of no
\* stored link, and a string of the right shape with a non-hex digit
RequestIds == { "L1", "L2", "bad" }

IdText(id) ==
    CASE id = "L1" -> UuidOf("a")
      [] id = "L2" -> UuidOf("B")
      [] id = "bad" -> UuidOf("g")
      [] OTHER -> UuidOf("c")

\* ------------------------------------------------------------------------
\* URLs (lib/url-utils.ts)
\* A parsed URL (the URL object) is its protocol, the labels of its hostname, the
\* characters of its pathname, its query parameters in order (the name of each as
\* characters) and its hash.
\* ------------------------------------------------------------------------
ParsedUrl(protocol, hostname, pathname, search, hash) ==
    [protocol |-> protocol, hostname |-> hostname, pathname |-> pathname,
     search |-> search, hash |-> hash]

Param(key, value) == [key |-> key, value |-> value]

\* the characters parameter names are written in, in code-unit order
KeyAlphabet ==
    << "-", "A", "M", "U", "_", "a", "b", "c", "d", "e", "f", "g", "i", "k", "l", "m", "n",
       "o", "p", "r", "s", "t", "u", "w" , "z" >>

KeyCode(c) == CHOOSE i \in 1..Len(KeyAlphabet) : KeyAlphabet[i] = c

\* the i flag of the patterns
LowerCase(c) ==
    CASE c = "A" -> "a" [] c = "M" -> "m" [] c = "U" -> "u" [] OTHER -> c

LowerKey(key) == [i \in 1..Len(key) |-> LowerCase(key[i])]

\* \w
IsWordChar(c) == c # "-"

\* /^<prefix>\w+$/i
MatchesPrefix(key, prefix) ==
    /\ Len(key) > Len(prefix)
    /\ SubSeq(LowerKey(key), 1, Len(prefix)) = prefix
    /\ \A i \in (Len(prefix) + 1)..Len(key) : IsWordChar(key[i])

\* /^<word>$/i
MatchesWord(key, word) == LowerKey(key) = word

\* the patterns without the last, /^mc_\w+$/i
IsTrackingParam_noMailchimp(key) ==
    \/ MatchesPrefix(key, << "u", "t", "m", "_" >>)
    \/ MatchesWord(key, << "f", "b", "c", "l", "i", "d" >>)
    \/ MatchesWord(key, << "g", "c", "l", "i", "d" >>)
    \/ MatchesWord(key, << "m", "s", "c", "l", "k", "i", "d" >>)
    \/ MatchesWord(key, << "t", "w", "c", "l", "i", "d" >>)
    \/ MatchesWord(key, << "r", "e", "f" >>)
    \/ MatchesWord(key, << "s", "o", "u", "r", "c", "e" >>)
    \/ MatchesWord(key, << "c", "a", "m", "p", "a", "i", "g", "n" >>)

\* TRACKING_PARAMS.some(regex => regex.test(key))
IsTrackingParam(key) ==
    \/ MatchesPrefix(key, << "u", "t", "m", "_" >>)
    \/ MatchesWord(key, << "f", "b", "c", "l", "i", "d" >>)
    \/ MatchesWord(key, << "g", "c", "l", "i", "d" >>)
    \/ MatchesWord(key, << "m", "s", "c", "l", "k", "i", "d" >>)
    \/ MatchesWord(key, << "t", "w", "c", "l", "i", "d" >>)
    \/ MatchesWord(key, << "r", "e", "f" >>)
    \/ MatchesWord(key, << "s", "o", "u", "r", "c", "e" >>)
    \/ MatchesWord(key, << "c", "a", "m", "p", "a", "i", "g", "n" >>)
    \/ MatchesPrefix(key, << "m", "c", "_" >>)

\* keysToDelete.forEach(key => params.delete(key))
RECURSIVE DeleteTracking(_)
DeleteTracking(params) ==
    IF params = << >> THEN << >>
    ELSE IF IsTrackingParam(Head(params).key) THEN DeleteTracking(Tail(params))
    ELSE << Head(params) >> \o DeleteTracking(Tail(params))

\* the order of two names by code units
RECURSIVE KeyLess(_, _)
KeyLess(a, b) ==
    IF b = << >> THEN FALSE
    ELSE IF a = << >> THEN TRUE
    ELSE IF Head(a) = Head(b) THEN KeyLess(Tail(a), Tail(b))
    ELSE KeyCode(Head(a)) < KeyCode(Head(b))

\* p placed after the last parameter of `sorted` whose name is not greater
RECURSIVE InsertParam(_, _)
InsertParam(sorted, p) ==
    IF sorted = << >> THEN << p >>
    ELSE IF KeyLess(p.key, Head(sorted).key) THEN << p >> \o sorted
    ELSE << Head(sorted) >> \o InsertParam(Tail(sorted), p)

\* the parameters left in the order they were typed in
SortParams_asTyped(params) == params

\* URLSearchParams.prototype.sort(): a stable sort by name
RECURSIVE SortParams(_)
SortParams(params) ==
    IF params = << >> THEN << >>
    ELSE InsertParam(SortParams(SubSeq(params, 1, Len(params) - 1)), params[Len(params)])

RECURSIVE JoinChars(_)
JoinChars(cs) == IF cs = << >> THEN "" ELSE Head(cs) \o JoinChars(Tail(cs))

RECURSIVE JoinLabels(_)
JoinLabels(labels) ==
    IF labels = << >> THEN ""
    ELSE IF Len(labels) = 1 THEN Head(labels)
    ELSE Head(labels) \o "." \o JoinLabels(Tail(labels))

\* URLSearchParams.prototype.toString()
RECURSIVE SearchString(_)
SearchString(params) ==
    IF params = << >> THEN ""
    ELSE JoinChars(Head(params).key) \o "=" \o Head(params).value
         \o (IF Len(params) = 1 THEN "" ELSE "&" \o SearchString(Tail(params)))

\* parsedUrl.toString().replace(/\/$/, ""): the string ends with the pathname when
\* there is neither a query nor a hash
UrlString(u) ==
    LET bare == u.search = << >> /\ u.hash = ""
        path == IF bare /\ u.pathname # << >> /\ u.pathname[Len(u.pathname)] = "/"
                THEN SubSeq(u.pathname, 1, Len(u.pathname) - 1)
                ELSE u.pathname
    IN  u.protocol \o "//" \o JoinLabels(u.hostname) \o JoinChars(path)
        \o (IF u.search = << >> THEN "" ELSE "?" \o SearchString(u.search))
        \o u.hash

\* the normalization without the www. step
NormalizeParsed_keepsWww(u) ==
    ParsedUrl("https:",
              u.hostname,
              IF Len(u.pathname) > 1 /\ u.pathname[Len(u.pathname)] = "/"
              THEN SubSeq(u.pathname, 1, Len(u.pathname) - 1) ELSE u.pathname,
              SortParams(DeleteTracking(u.search)),
              "")

\* steps 1-5 of normalizeUrlForStorage on the parsed URL
NormalizeParsed(u) ==
    ParsedUrl("https:",
              IF Len(u.hostname) > 1 /\ Head(u.hostname) = "www"
              THEN Tail(u.hostname) ELSE u.hostname,
              IF Len(u.pathname) > 1 /\ u.pathname[Len(u.pathname)] = "/"
              THEN SubSeq(u.pathname, 1, Len(u.pathname) - 1) ELSE u.pathname,
              SortParams(DeleteTracking(u.search)),
              "")

\* The strings a request can carry as url, as new URL() reads them once the
\* protocol is prepended where missing; a string new URL() rejects is NULL.
\*   "http://www.example.com/page/?utm_source=x"
RAW_TRACKED ==
    Some(ParsedUrl("http:", << "www", "example", "com" >>,
                   << "/", "p", "a", "g", "e", "/" >>,
                   << Param(<< "u", "t", "m", "_", "s", "o", "u", "r", "c", "e" >>, "x") >>,
                   ""))
\*   "https://example.com/page"
RAW_PLAIN ==
    Some(ParsedUrl("https:", << "example", "com" >>, << "/", "p", "a", "g", "e" >>,
                   << >>, ""))
\*   "example.org/?b=2&a=1#top"
RAW_OTHER ==
    Some(ParsedUrl("https:", << "example", "org" >>, << "/" >>,
                   << Param(<< "b" >>, "2"), Param(<< "a" >>, "1") >>, "#top"))
\*   "https://example.com/docs"
RAW_DOCS ==
    Some(ParsedUrl("https:", << "example", "com" >>, << "/", "d", "o", "c", "s" >>,
                   << >>, ""))
\*   "http://"
RAW_INVALID == NULL

\* normalizeUrlForStorage: the normalized string, or the Error it throws
normalizeUrlForStorage(rawUrl) ==
    IF rawUrl = NULL
    THEN [ok |-> FALSE, url |-> "", message |-> "Invalid URL: not a valid web address."]
    ELSE IF Val(rawUrl).protocol \notin { "https:", "http:" }
    THEN [ok |-> FALSE, url |-> "", message |-> "Unsupported protocol"]
    ELSE [ok |-> TRUE, url |-> UrlString(NormalizeParsed(Val(rawUrl))), message |-> ""]

\* ------------------------------------------------------------------------
\* The url of a request as it is typed: the scheme it begins with ("" when it
\* begins with none), the labels of the host name, the characters of the path, the
\* query parameters in order, and the fragment with its "#".
\* ------------------------------------------------------------------------
RawUrl(scheme, hostname, pathname, search, hash) ==
    [scheme |-> scheme, hostname |-> hostname, pathname |-> pathname,
     search |-> search, hash |-> hash]

\* rawUrl.match(/^https?:\/\//i)
HasWebScheme(raw) == raw.scheme \in { "http://", "https://" }

\* the characters of a host name
RECURSIVE HostChars(_)
HostChars(labels) ==
    IF labels = << >> THEN << >>
    ELSE IF Len(labels) = 1 THEN << Head(labels) >>
    ELSE << Head(labels), "." >> \o HostChars(Tail(labels))

\* new URL(urlWithProtocol), urlWithProtocol being rawUrl when it begins with
\* http:// or https:// and "https://" + rawUrl otherwise.  After the prepended
\* "https://" the typed scheme is read as the authority: "ftp://example.com/a" is
\* parsed as host "ftp" with an empty port and path "//example.com/a", and
\* "javascript:example.com" as host "javascript" with the port "example.com",
\* which is not a number, so that new URL() throws.  An empty path is "/".
ParseUrl(raw) ==
    LET path == IF raw.pathname = << >> THEN << "/" >> ELSE raw.pathname
    IN  IF HasWebScheme(raw)
        THEN Some(ParsedUrl(IF raw.scheme = "http://" THEN "http:" ELSE "https:",
                            raw.hostname, path, raw.search, raw.hash))
        ELSE IF raw.scheme = ""
        THEN Some(ParsedUrl("https:", raw.hostname, path, raw.search, raw.hash))
        ELSE IF raw.scheme = "ftp://"
        THEN Some(ParsedUrl("https:", << "ftp" >>,
                            << "/", "/" >> \o HostChars(raw.hostname) \o raw.pathname,
                            raw.search, raw.hash))
        ELSE NULL

\* the longest query string of the urls the requests of SpecUrl carry
MaxParams == 2

P_A1 == Param(<< "a" >>, "1")
P_A2 == Param(<< "a" >>, "2")
P_B1 == Param(<< "b" >>, "1")
P_UTM == Param(<< "u", "t", "m", "_", "s", "o", "u", "r", "c", "e" >>, "x")

RawParams == { P_A1, P_A2, P_B1, P_UTM }

RawSearches == UNION { [1..n -> RawParams] : n \in 0..MaxParams }

RawSchemes == { "", "http://", "https://", "ftp://", "javascript:" }

RawHosts ==
    { << "example", "com" >>, << "www", "example", "com" >>,
      << "www", "www", "example", "com" >> }

RawPaths == { << >>, << "/", "a" >>, << "/", "a", "/" >>, << "/", "a", "/", "/" >> }

RawHashes == { "", "#top" }

RawUrls ==
    { RawUrl(scheme, hostname, pathname, search, hash) :
        scheme \in RawSchemes, hostname \in RawHosts, pathname \in RawPaths,
        search \in RawSearches, hash \in RawHashes }

\* normalizeUrlForStorage from the typed url
NormalizeRaw(raw) == normalizeUrlForStorage(ParseUrl(raw))

\* ------------------------------------------------------------------------
\* Pages the monitored site can serve, and outcomes of a page fetch
\* ------------------------------------------------------------------------
Element(sel, text) == [sel |-> sel, text |-> text]

PAGE_A == [title |-> << "t" >>,
           body |-> << Element("script", << "x", "x" >>), Element("p", T_A) >>]
PAGE_B == [title |-> << "t" >>,
           body |-> << Element("nav", << "m" >>), Element("main", T_B) >>]
PAGE_A_NL == [title |-> << "t" >>, body |-> << Element("p", T_A_NL) >>]
PAGE_NINE == [title |-> << >>, body |-> << Element("p", << " " >> \o T_NINE \o << " " >>) >>]
PAGE_HELLO == [title |-> << >>, body |-> << Element("div", T_HELLO) >>]
PAGE_EMPTY == [title |-> << >>, body |-> << Element("script", << "x" >>) >>]

Pages == { PAGE_A, PAGE_B, PAGE_A_NL, PAGE_NINE, PAGE_HELLO, PAGE_EMPTY }

FetchOutcomes ==
    { [kind |-> "ok", html |-> p] : p \in Pages }
        \cup { [kind |-> "http", html |-> NULL],
               [kind |-> "timeout", html |-> NULL],
               [kind |-> "network", html |-> NULL] }

\* ------------------------------------------------------------------------
\* Errors and responses (lib/errors: AppError, handleError)
\* ------------------------------------------------------------------------
AppError(message, statusCode) ==
    [type |-> "AppError", message |-> message, statusCode |-> statusCode]

\* NextResponse.json({ status, check, diff })
CheckResult(status, check, diff) ==
    [http |-> 200, status |-> status, check |-> check, diff |-> diff, error |-> ""]

\* NextResponse.json({ error }, { status })
ErrorResponse(message, statusCode) ==
    [http |-> statusCode, status |-> "", check |-> NULL, diff |-> NULL, error |-> message]

\* the ZodError AddLinkSchema.parse throws, with its issues joined
ZodError(message) == [type |-> "ZodError", message |-> message, statusCode |-> 0]

handleError(error) ==
    IF error.type = "AppError" THEN ErrorResponse(error.message, error.statusCode)
    ELSE IF error.type = "ZodError" THEN ErrorResponse(error.message, 400)
    ELSE ErrorResponse("Internal server error", 500)

\* NextResponse.json(body, { status }) of the links and history handlers; the body
\* is the call's result
JsonResponse(statusCode) ==
    [http |-> statusCode, status |-> "", check |-> NULL, diff |-> NULL, error |-> ""]

\* the catch block of route.ts POST
routeCatch(error) == ErrorResponse("Internal server error", 500)

\* ------------------------------------------------------------------------
\* State
\* ------------------------------------------------------------------------
VARIABLES
    tables,            \* which description of the tables the database was created from
    monitored_links,   \* rows of table monitored_links: [id, url]
    created,           \* number of ids gen_random_uuid() has given to monitored_links rows
    link_checks,       \* rows of table link_checks, oldest first (fetched_at = now())
    call,              \* per request slot: the handler's locals and position
    started,           \* number of requests started so far
    card               \* the state of a LinkCard in the browser (components/LinkCard.tsx)

vars == << tables, monitored_links, created, link_checks, call, started, card >>

\* a LinkCard as mounted: useState(false), useState(0), useState(null); with what it
\* has done so far: the check requests it has sent, which call set the cooldown
\* last, and the ticks of the cooldown timer since then
IdleCard ==
    [isChecking |-> FALSE, cooldown |-> 0, error |-> NULL, checkResult |-> NULL,
     sent |-> 0, setBy |-> "", ticks |-> 0]

\* the requests the server can be handling at one time
Slots == { "r1", "r2" }

\* Spec runs one request at a time
SequentialSlots == { "r1" }

Handlers == { "runCheck", "POST" }

IdleCall ==
    [pc |-> "idle", handler |-> "", id |-> "", cleanText |-> << >>, contentHash |-> NULL,
     lastCheck |-> NULL, branch |-> "", errorMessage |-> "", attempt |-> 0,
     diffSummary |-> NULL, diff |-> NULL, summarizerInput |-> << >>, response |-> NULL,
     \* what this invocation has done so far
     fetched |-> "", extracted |-> FALSE, hashed |-> FALSE, read |-> "",
     diffCalls |-> 0, summarizerCalls |-> 0, modelOutcomes |-> << >>, delays |-> << >>,
     insertAttempts |-> 0, insertStorage |-> "", inserted |-> << >>, priorCount |-> 0,
     \* the links and history handlers
     body |-> NULL, normalizedUrl |-> "", count |-> NULL, title |-> NULL,
     result |-> NULL]

\* ------------------------------------------------------------------------
\* Storage (supabase/schema.sql)
\* ------------------------------------------------------------------------
Row_noHash(link_id, status, raw_content, content_hash, diff_summary, error_message) ==
    [link_id |-> link_id, status |-> status, raw_content |-> raw_content,
     content_hash |-> NULL, diff_summary |-> diff_summary,
     error_message |-> error_message]

Row(link_id, status, raw_content, content_hash, diff_summary, error_message) ==
    [link_id |-> link_id, status |-> status, raw_content |-> raw_content,
     content_hash |-> content_hash, diff_summary |-> diff_summary,
     error_message |-> error_message]

\* The repository describes its tables twice: supabase/schema.sql, which the README
\* has the user install, and lib/types.ts ("These types mirror the database
\* schema"), which the handlers are written against.  The two disagree on the
\* statuses of link_checks and on the columns of monitored_links; the database is
\* created from one of them.
TableDefinitions == { "schema.sql", "types.ts" }

\* CHECK (status IN ('success', 'no_change', 'error'))
StatusCheck == { "success", "no_change", "error" }

\* LinkCheck.status
LinkCheckStatus == { "success", "no_change", "error", "initial_baseline" }

LinkIds == { l.id : l \in monitored_links }

\* link_checks accepts a row: the CHECK constraint and the foreign key
SchemaAccepts(row) ==
    /\ row.status \in (IF tables = "schema.sql" THEN StatusCheck ELSE LinkCheckStatus)
    /\ row.link_id \in LinkIds

\* .eq("link_id", id).in("status", statuses).order("fetched_at", desc).limit(1)
\* the oldest row instead of the most recent one
LatestCheck_oldest(id, statuses) ==
    LET hits == { i \in DOMAIN link_checks :
                    link_checks[i].link_id = id /\ link_checks[i].status \in statuses }
    IN  IF hits = {} THEN NULL
        ELSE Some(link_checks[CHOOSE i \in hits : \A j \in hits : i <= j])

LatestCheck(id, statuses) ==
    LET hits == { i \in DOMAIN link_checks :
                    link_checks[i].link_id = id /\ link_checks[i].status \in statuses }
    IN  IF hits = {} THEN NULL
        ELSE Some(link_checks[CHOOSE i \in hits : \A j \in hits : j <= i])

ComparableStatuses(handler) ==
    IF handler = "runCheck" THEN { "success", "no_change", "initial_baseline" }
    ELSE { "success", "no_change" }

\* ------------------------------------------------------------------------
\* The summarizer (lib/gemini.ts)
\* ------------------------------------------------------------------------
SUMMARY == [summary |-> "s", citations |-> << >>]

\* an outcome of model.generateContent as the catch block reads it: whether the
\* message includes "429", whether it includes "503", whether the error's name is
\* TimeoutError, and the characters that follow `retryDelay` and its separators in
\* the message (no characters when the message names no retryDelay)
ModelError(has429, has503, isTimeout) ==
    [kind |-> "error", has429 |-> has429, has503 |-> has503, isTimeout |-> isTimeout,
     retryDelay |-> << >>]

E429 == ModelError(TRUE, FALSE, FALSE)
\* ... "retryDelay":"7s" ...
E429_DELAY == [E429 EXCEPT !.retryDelay = << "7", "s" >>]
\* ... "retryDelay":"1.5s" ...
E429_FRACTION == [E429 EXCEPT !.retryDelay = << "1", ".", "5", "s" >>]
E503 == ModelError(FALSE, TRUE, FALSE)
ETIMEOUT == ModelError(FALSE, FALSE, TRUE)
EOTHER == ModelError(FALSE, FALSE, FALSE)
RESPONSE_OK == [ModelError(FALSE, FALSE, FALSE) EXCEPT !.kind = "ok"]
\* a response body JSON.parse rejects: a SyntaxError
RESPONSE_MALFORMED == [ModelError(FALSE, FALSE, FALSE) EXCEPT !.kind = "malformed"]

ModelOutcomes == { RESPONSE_OK, RESPONSE_MALFORMED, E429, E503, ETIMEOUT, EOTHER }

\* the same, with the rate-limit errors that name a retryDelay
RetryOutcomes == ModelOutcomes \cup { E429_DELAY, E429_FRACTION }

Digits == << "0", "1", "2", "3", "4", "5", "6", "7", "8", "9" >>

IsDigit(c) == \E i \in 1..Len(Digits) : Digits[i] = c

DigitValue(c) == (CHOOSE i \in 1..Len(Digits) : Digits[i] = c) - 1

\* the longest run of digits t starts with: (\d+), greedy
RECURSIVE LeadingDigits(_)
LeadingDigits(t) ==
    IF t = << >> \/ ~IsDigit(Head(t)) THEN << >>
    ELSE << Head(t) >> \o LeadingDigits(Tail(t))

\* parseInt(digits, 10)
RECURSIVE ParseInt(_, _)
ParseInt(digits, acc) ==
    IF digits = << >> THEN acc
    ELSE ParseInt(Tail(digits), acc * 10 + DigitValue(Head(digits)))

parseRetryDelay_seconds(error, defaultMs) ==
    LET digits == LeadingDigits(error.retryDelay)
    IN  IF digits # << >> /\ Len(error.retryDelay) > Len(digits)
           /\ error.retryDelay[Len(digits) + 1] = "s"
        THEN ParseInt(digits, 0)
        ELSE defaultMs

\* error.message.match(/retryDelay['":\s]+["']?(\d+)s/i): digits, then an s
parseRetryDelay(error, defaultMs) ==
    LET digits == LeadingDigits(error.retryDelay)
    IN  IF digits # << >> /\ Len(error.retryDelay) > Len(digits)
           /\ error.retryDelay[Len(digits) + 1] = "s"
        THEN ParseInt(digits, 0) * 1000
        ELSE defaultMs

\* const fallbackDelay = (attempt + 1) * 5000
fallbackDelay(attempt) == (attempt + 1) * 5000

\* the loop retrying a timeout as it retries a 429
geminiStep_retryTimeout(o, attempt) ==
    IF o.kind = "ok" THEN "return"
    ELSE IF (o.has429 \/ o.isTimeout) /\ attempt < MAX_RETRIES THEN "retry"
    ELSE IF o.isTimeout THEN "null"
    ELSE IF o.has503 THEN "throw503"
    ELSE "null"

\* the loop returning only what the first attempt produced
geminiStep_firstAttemptOnly(o, attempt) ==
    IF o.kind = "ok" /\ attempt = 0 THEN "return"
    ELSE IF o.has429 /\ attempt < MAX_RETRIES THEN "retry"
    ELSE IF o.isTimeout THEN "null"
    ELSE IF o.has503 THEN "throw503"
    ELSE "null"

geminiStep_swallow503(o, attempt) ==
    IF o.kind = "ok" THEN "return"
    ELSE IF o.has429 /\ attempt < MAX_RETRIES THEN "retry"
    ELSE "null"

\* one pass of the retry loop of executeGeminiRequest on outcome o at `attempt`:
\* what the loop does next
geminiStep(o, attempt) ==
    IF o.kind = "ok" THEN "return"
    ELSE IF o.has429 /\ attempt < MAX_RETRIES THEN "retry"
    ELSE IF o.isTimeout THEN "null"
    ELSE IF o.has503 THEN "throw503"
    ELSE "null"

\* summarizeChanges without its guard
summarizeChangesSkips_never(removed, added) == FALSE

\* summarizeChanges' guard: no request when both texts are blank
summarizeChangesSkips(removed, added) == Trim(removed) = << >> /\ Trim(added) = << >>

\* summarizeInitialPage's guard
summarizeInitialPageSkips(pageText) == Trim(pageText) = << >>

\* ------------------------------------------------------------------------
\* The check handlers, one action per await
\*   runCheck : lib/controllers/check.controller.ts
\*   POST     : app/api/check/[id]/route.ts
\* ------------------------------------------------------------------------
Finish(c, response) == [c EXCEPT !.pc = "done", !.response = Some(response)]

\* an error leaving the handler's try block
Throw(c, error) ==
    Finish(c, IF c.handler \in { "runCheck", "addLink", "deleteLink", "listLinks" }
              THEN handleError(error) ELSE routeCatch(error))

\* the UUID test: a request is admitted to a free slot
Start(s, h, id) ==
    /\ call[s].pc = "idle"
    /\ started < MaxChecks
    /\ started' = started + 1
    /\ LET c == [IdleCall EXCEPT !.handler = h, !.id = id, !.priorCount = Len(link_checks)]
       IN  call' = [call EXCEPT ![s] =
                IF UuidRegexTest(IdText(id)) THEN [c EXCEPT !.pc = "lookup"]
                ELSE IF h = "runCheck"
                     THEN Throw(c, AppError("Invalid link ID format", 400))
                     ELSE Finish(c, ErrorResponse("Invalid link ID format", 400))]
    /\ UNCHANGED << card, tables, monitored_links, created, link_checks >>

\* monitored_links .select("*").eq("id", id).single()
Lookup(s) ==
    /\ call[s].pc = "lookup"
    /\ \E storageUp \in BOOLEAN :
          LET c == call[s]
              found == storageUp /\ c.id \in LinkIds
          IN  call' = [call EXCEPT ![s] =
                  IF found THEN [c EXCEPT !.pc = "fetch"]
                  ELSE IF c.handler = "runCheck"
                       THEN Throw(c, AppError("Link not found", 404))
                       ELSE Finish(c, ErrorResponse("Link not found", 404))]
    /\ UNCHANGED << card, tables, monitored_links, created, link_checks, started >>

FetchErrorMessage_unknown(handler, kind) == "Unknown fetch error"

\* the message fetchPageHtml's AppError carries (runCheck), or the one the route
\* builds from the error it caught (POST)
FetchErrorMessage(handler, kind) ==
    CASE kind = "http" -> "HTTP 404: Not Found"
      [] kind = "timeout" ->
            IF handler = "runCheck"
            THEN "Request timed out after " \o ToString(FETCH_TIMEOUT_MS \div 1000) \o "s"
            ELSE "Request timed out after " \o ToString(ROUTE_FETCH_TIMEOUT_S) \o " seconds"
      [] OTHER -> IF handler = "runCheck" THEN "TypeError: fetch failed" ELSE "fetch failed"

ExtractErrorMessage == "Could not extract readable content from the page"

Unreadable_inclusive(cleanText) == Len(cleanText) <= MIN_CONTENT_CHARS

\* !cleanText || cleanText.length < 10
Unreadable(cleanText) == cleanText = << >> \/ Len(cleanText) < MIN_CONTENT_CHARS

\* Steps 1-3: fetch the page, extract its text, hash it; the fetch ends as one of
\* `outcomes`
FetchOf(s, outcomes) ==
    /\ call[s].pc = "fetch"
    /\ \E r \in outcomes :
          LET c == call[s]
              cleanText == extractReadableText(r.html)
          IN  call' = [call EXCEPT ![s] =
                  IF r.kind # "ok"
                  THEN [c EXCEPT !.pc = "saveError", !.fetched = r.kind,
                                 !.errorMessage = FetchErrorMessage(c.handler, r.kind)]
                  ELSE IF Unreadable(cleanText)
                  THEN [c EXCEPT !.pc = "saveError", !.fetched = "ok", !.extracted = TRUE,
                                 !.cleanText = cleanText,
                                 !.errorMessage = ExtractErrorMessage]
                  ELSE [c EXCEPT !.pc = "loadLast", !.fetched = "ok", !.extracted = TRUE,
                                 !.cleanText = cleanText, !.hashed = TRUE,
                                 !.contentHash = Some(computeContentHash(cleanText))]]
    /\ UNCHANGED << card, tables, monitored_links, created, link_checks, started >>

Fetch(s) == FetchOf(s, FetchOutcomes)

\* saveErrorCheck repeating a failed insert before it gives up
SaveError_retry(s) ==
    /\ call[s].pc = "saveError"
    /\ \E storageUp \in BOOLEAN :
          LET c == call[s]
              row == Row(c.id, "error", NULL, NULL, NULL, Some(c.errorMessage))
              accepted == storageUp /\ SchemaAccepts(row)
              c1 == [c EXCEPT !.insertAttempts = @ + 1,
                              !.insertStorage = IF storageUp THEN "up" ELSE "down",
                              !.inserted = IF accepted THEN Append(@, row) ELSE @]
          IN  /\ link_checks' = IF accepted THEN Append(link_checks, row) ELSE link_checks
              /\ call' = [call EXCEPT ![s] =
                     IF accepted \/ c.insertAttempts >= 1
                     THEN Finish([c1 EXCEPT !.branch = "failed"],
                                 CheckResult("error", IF accepted THEN Some(row) ELSE NULL, NULL))
                     ELSE c1]
    /\ UNCHANGED << card, tables, monitored_links, created, started >>

\* saveErrorCheck keeping one error row per link: the new row replaces the newest row
SaveError_overwrite(s) ==
    /\ call[s].pc = "saveError"
    /\ \E storageUp \in BOOLEAN :
          LET c == call[s]
              row == Row(c.id, "error", NULL, NULL, NULL, Some(c.errorMessage))
              accepted == storageUp /\ SchemaAccepts(row)
              errorCheck == IF accepted THEN Some(row) ELSE NULL
          IN  /\ link_checks' =
                     IF ~accepted THEN link_checks
                     ELSE IF link_checks = << >> THEN << row >>
                     ELSE [link_checks EXCEPT ![Len(link_checks)] = row]
              /\ call' = [call EXCEPT ![s] =
                     Finish([c EXCEPT !.branch = "failed",
                                      !.insertAttempts = @ + 1,
                                      !.insertStorage = IF storageUp THEN "up" ELSE "down",
                                      !.inserted = IF accepted THEN Append(@, row) ELSE @],
                            CheckResult("error", errorCheck, NULL))]
    /\ UNCHANGED << card, tables, monitored_links, created, started >>

\* saveErrorCheck / buildErrorResponse: the insert's error is not looked at
SaveError(s) ==
    /\ call[s].pc = "saveError"
    /\ \E storageUp \in BOOLEAN :
          LET c == call[s]
              row == Row(c.id, "error", NULL, NULL, NULL, Some(c.errorMessage))
              accepted == storageUp /\ SchemaAccepts(row)
              errorCheck == IF accepted THEN Some(row) ELSE NULL
          IN  /\ link_checks' = IF accepted THEN Append(link_checks, row) ELSE link_checks
              /\ call' = [call EXCEPT ![s] =
                     Finish([c EXCEPT !.branch = "failed",
                                      !.insertAttempts = @ + 1,
                                      !.insertStorage = IF storageUp THEN "up" ELSE "down",
                                      !.inserted = IF accepted THEN Append(@, row) ELSE @],
                            CheckResult("error", errorCheck, NULL))]
    /\ UNCHANGED << card, tables, monitored_links, created, started >>

SameHash_never(lastCheck, contentHash) == FALSE

\* lastCheck.content_hash === contentHash
SameHash(lastCheck, contentHash) == lastCheck.content_hash = contentHash

\* Steps 4-7 up to the summarizer's first request: load the last comparable check,
\* choose the branch, diff, and enter the summarizer
LoadLast(s) ==
    /\ call[s].pc = "loadLast"
    /\ \E storageUp \in BOOLEAN :
          LET c == [call[s] EXCEPT !.read = IF storageUp THEN "ok" ELSE "failed"]
              lastCheck == IF storageUp
                           THEN LatestCheck(c.id, ComparableStatuses(c.handler))
                           ELSE NULL
              previousContent == IF lastCheck = NULL \/ Val(lastCheck).raw_content = NULL
                                 THEN << >>
                                 ELSE Val(Val(lastCheck).raw_content)
              diffResult == diffWords(previousContent, c.cleanText)
              pageText == Slice(c.cleanText, BASELINE_TEXT_MAX_CHARS)
          IN  call' = [call EXCEPT ![s] =
                  IF c.handler = "runCheck" /\ lastCheck = NULL
                  THEN [c EXCEPT !.lastCheck = lastCheck, !.branch = "baseline",
                                 !.summarizerCalls = @ + 1,
                                 !.summarizerInput = << pageText >>,
                                 !.pc = IF summarizeInitialPageSkips(pageText)
                                        THEN "insert" ELSE "summarize"]
                  ELSE IF lastCheck # NULL /\ SameHash(Val(lastCheck), c.contentHash)
                  THEN [c EXCEPT !.lastCheck = lastCheck, !.branch = "unchanged",
                                 !.pc = "insert"]
                  ELSE [c EXCEPT !.lastCheck = lastCheck, !.branch = "changed",
                                 !.diffCalls = @ + 1, !.diff = Some(diffResult),
                                 !.summarizerCalls = @ + 1,
                                 !.summarizerInput =
                                     << removedText(diffResult), addedText(diffResult) >>,
                                 !.pc = IF summarizeChangesSkips(removedText(diffResult),
                                                                 addedText(diffResult))
                                        THEN "insert" ELSE "summarize"]]
    /\ UNCHANGED << card, tables, monitored_links, created, link_checks, started >>

\* one request of executeGeminiRequest's retry loop, the model answering with one
\* of `outcomes`
ModelRequestOf(s, outcomes) ==
    /\ call[s].pc = "summarize"
    /\ \E o \in outcomes :
          LET c == [call[s] EXCEPT !.modelOutcomes = Append(@, o)]
              step == geminiStep(o, c.attempt)
          IN  call' = [call EXCEPT ![s] =
                  CASE step = "return" -> [c EXCEPT !.diffSummary = Some(SUMMARY),
                                                    !.pc = "insert"]
                    [] step = "retry" ->
                          [c EXCEPT !.attempt = @ + 1,
                                    !.delays = Append(@, parseRetryDelay(o, fallbackDelay(c.attempt)))]
                    [] step = "throw503" ->
                          Throw(c, AppError("AI model is currently experiencing high demand. Please try again later.", 503))
                    [] OTHER -> [c EXCEPT !.diffSummary = NULL, !.pc = "insert"]]
    /\ UNCHANGED << card, tables, monitored_links, created, link_checks, started >>

ModelRequest(s) == ModelRequestOf(s, ModelOutcomes)

BranchStatus(branch) ==
    CASE branch = "baseline" -> "initial_baseline"
      [] branch = "unchanged" -> "no_change"
      [] OTHER -> "success"

InsertFailureMessage(branch) ==
    CASE branch = "baseline" -> "Failed to save initial baseline result"
      [] branch = "unchanged" -> "Failed to save no-change result"
      [] OTHER -> "Failed to save check result"

BranchDiff_none(c) == NULL

\* every branch answering with the diff it computed, if any
BranchDiff_computed(c) == c.diff

\* the diff member of the response of each branch
BranchDiff(c) ==
    CASE c.branch = "baseline" -> Some(<< >>)
      [] c.branch = "unchanged" -> NULL
      [] OTHER -> c.diff

\* the handler repeating the insert until storage takes the row
Insert_untilStored(s) ==
    /\ call[s].pc = "insert"
    /\ \E storageUp \in BOOLEAN :
          LET c0 == call[s]
              row == Row(c0.id, BranchStatus(c0.branch), Some(c0.cleanText), c0.contentHash,
                         IF c0.branch = "unchanged" THEN NULL ELSE c0.diffSummary, NULL)
              accepted == storageUp /\ SchemaAccepts(row)
              c == [c0 EXCEPT !.insertAttempts = 1,
                              !.insertStorage = IF storageUp THEN "up" ELSE "down",
                              !.inserted = IF accepted THEN Append(@, row) ELSE @]
          IN  /\ link_checks' = IF accepted THEN Append(link_checks, row) ELSE link_checks
              /\ call' = [call EXCEPT ![s] =
                     IF accepted
                     THEN Finish(c, CheckResult(row.status, Some(row), BranchDiff(c)))
                     ELSE c]
    /\ UNCHANGED << card, tables, monitored_links, created, started >>

\* the insert that ends the baseline, no-change and changed branches
Insert(s) ==
    /\ call[s].pc = "insert"
    /\ \E storageUp \in BOOLEAN :
          LET c0 == call[s]
              row == Row(c0.id, BranchStatus(c0.branch), Some(c0.cleanText), c0.contentHash,
                         IF c0.branch = "unchanged" THEN NULL ELSE c0.diffSummary, NULL)
              accepted == storageUp /\ SchemaAccepts(row)
              c == [c0 EXCEPT !.insertAttempts = @ + 1,
                              !.insertStorage = IF storageUp THEN "up" ELSE "down",
                              !.inserted = IF accepted THEN Append(@, row) ELSE @]
          IN  /\ link_checks' = IF accepted THEN Append(link_checks, row) ELSE link_checks
              /\ call' = [call EXCEPT ![s] =
                     IF accepted
                     THEN Finish(c, CheckResult(row.status, Some(row), BranchDiff(c)))
                     ELSE IF c.handler = "runCheck"
                     THEN Throw(c, AppError(InsertFailureMessage(c.branch), 500))
                     ELSE IF c.branch = "unchanged"
                     THEN Finish(c, CheckResult("no_change", NULL, NULL))
                     ELSE Finish(c, ErrorResponse("Failed to save check result", 500))]
    /\ UNCHANGED << card, tables, monitored_links, created, started >>

\* the response is sent; the slot is free for the next request
Respond(s) ==
    /\ call[s].pc = "done"
    /\ call' = [call EXCEPT ![s] = IdleCall]
    /\ UNCHANGED << card, tables, monitored_links, created, link_checks, started >>

\* ------------------------------------------------------------------------
\* The links handlers (links.controller.ts: addLink, deleteLink, listLinks) and
\* the history route (app/api/check/[id]/history/route.ts: GET)
\* ------------------------------------------------------------------------
\* the columns of monitored_links
MonitoredLinksColumns ==
    IF tables = "schema.sql" THEN { "id", "url", "title", "created_at" }
    ELSE { "id", "url", "title", "project_name", "created_at" }

\* .insert({ url, title, project_name })
AddLinkColumns == { "url", "title", "project_name" }

LinksSchemaAccepts_noUnique(columns, row) ==
    /\ columns \subseteq MonitoredLinksColumns
    /\ row.id \notin LinkIds

\* monitored_links accepts a row: known columns, PRIMARY KEY (id), UNIQUE (url)
LinksSchemaAccepts(columns, row) ==
    /\ columns \subseteq MonitoredLinksColumns
    /\ row.id \notin LinkIds
    /\ \A l \in monitored_links : l.url # row.url

\* the id gen_random_uuid() gives the next row
NewLinkId == "G" \o ToString(created + 1)

\* a request body of POST /api/links: whether it has a url, whether that is the
\* empty string, and what new URL() makes of it
Body(given, empty, parsed) == [given |-> given, empty |-> empty, parsed |-> parsed]

Bodies ==
    { Body(FALSE, FALSE, NULL), Body(TRUE, TRUE, NULL), Body(TRUE, FALSE, RAW_INVALID),
      Body(TRUE, FALSE, RAW_TRACKED), Body(TRUE, FALSE, RAW_PLAIN),
      Body(TRUE, FALSE, RAW_OTHER), Body(TRUE, FALSE, RAW_DOCS) }

CapMessage ==
    "Maximum of " \o ToString(MAX_LINKS)
        \o " monitored links reached. Remove one before adding another."

\* addLink up to its first storage call: AddLinkSchema.parse and the normalization
AddLinkStart(s, body) ==
    /\ call[s].pc = "idle"
    /\ started < MaxRequests
    /\ started' = started + 1
    /\ LET c == [IdleCall EXCEPT !.handler = "addLink", !.body = Some(body),
                                 !.priorCount = Len(link_checks)]
           n == normalizeUrlForStorage(body.parsed)
       IN  call' = [call EXCEPT ![s] =
               IF ~body.given THEN Throw(c, ZodError("url: URL is required"))
               ELSE IF body.empty THEN Throw(c, ZodError("url: URL cannot be empty"))
               ELSE IF ~n.ok THEN Throw(c, AppError(n.message, 400))
               ELSE [c EXCEPT !.normalizedUrl = n.url, !.pc = "count"]]
    /\ UNCHANGED << card, tables, monitored_links, created, link_checks >>

\* count !== null && count >= MAX_LINKS
AtCap(count) == count >= MAX_LINKS

\* .select("*", { count: "exact", head: true }) and the cap
CountLinks(s) ==
    /\ call[s].pc = "count"
    /\ \E storageUp \in BOOLEAN :
          LET c == call[s]
              count == Cardinality(monitored_links)
          IN  call' = [call EXCEPT ![s] =
                  IF ~storageUp
                  THEN Throw(c, AppError("Failed to check link count", 500))
                  ELSE IF AtCap(count)
                  THEN Throw([c EXCEPT !.count = Some(count)], AppError(CapMessage, 400))
                  ELSE [c EXCEPT !.count = Some(count), !.pc = "existing"]]
    /\ UNCHANGED << card, tables, monitored_links, created, link_checks, started >>

\* .select("id").eq("url", normalizedUrl).limit(1): the query's error is not looked
\* at; then scrapePageTitle, which touches no table and never throws
FindExisting(s) ==
    /\ call[s].pc = "existing"
    /\ \E storageUp \in BOOLEAN, title \in { NULL, Some("t") } :
          LET c == call[s]
              existing == IF storageUp
                          THEN { l \in monitored_links : l.url = c.normalizedUrl }
                          ELSE {}
          IN  call' = [call EXCEPT ![s] =
                  IF existing # {}
                  THEN Throw([c EXCEPT !.read = "ok"],
                             AppError("This URL is already being monitored.", 409))
                  ELSE [c EXCEPT !.title = title, !.pc = "insertLink",
                                 !.read = IF storageUp THEN "ok" ELSE "failed"]]
    /\ UNCHANGED << card, tables, monitored_links, created, link_checks, started >>

\* .insert({ url: normalizedUrl, title, project_name }).select().single()
InsertLink(s) ==
    /\ call[s].pc = "insertLink"
    /\ \E storageUp \in BOOLEAN :
          LET c == call[s]
              newLink == [id |-> NewLinkId, url |-> c.normalizedUrl]
              accepted == storageUp /\ LinksSchemaAccepts(AddLinkColumns, newLink)
          IN  /\ monitored_links' =
                     IF accepted THEN monitored_links \cup { newLink } ELSE monitored_links
              /\ created' = IF accepted THEN created + 1 ELSE created
              /\ call' = [call EXCEPT ![s] =
                     IF accepted
                     THEN Finish([c EXCEPT !.result = Some(newLink)], JsonResponse(201))
                     ELSE Throw(c, AppError("Failed to add link", 500))]
    /\ UNCHANGED << card, tables, link_checks, started >>

CascadeDelete_none(rows, id) == rows

\* REFERENCES monitored_links(id) ON DELETE CASCADE
CascadeDelete(rows, id) == SelectSeq(rows, LAMBDA r : r.link_id # id)

\* deleteLink: .delete().eq("id", id); the id is not tested before the query, and
\* the uuid column rejects a malformed one
DeleteLink(s, id) ==
    /\ call[s].pc = "idle"
    /\ started < MaxRequests
    /\ started' = started + 1
    /\ \E storageUp \in BOOLEAN :
          LET c == [IdleCall EXCEPT !.handler = "deleteLink", !.id = id,
                                   !.priorCount = Len(link_checks)]
              deleted == storageUp /\ UuidRegexTest(IdText(id))
          IN  /\ monitored_links' =
                     IF deleted THEN { l \in monitored_links : l.id # id }
                     ELSE monitored_links
              /\ link_checks' =
                     IF deleted THEN CascadeDelete(link_checks, id) ELSE link_checks
              /\ call' = [call EXCEPT ![s] =
                     IF deleted THEN Finish(c, JsonResponse(200))
                     ELSE Throw(c, AppError("Failed to delete link", 500))]
    /\ UNCHANGED << card, tables, created >>

\* the newest rows first: .order("fetched_at", { ascending: false })
RECURSIVE Descending(_)
Descending(rows) ==
    IF rows = << >> THEN << >>
    ELSE << rows[Len(rows)] >> \o Descending(SubSeq(rows, 1, Len(rows) - 1))

\* the query without its order: the first n rows of the link as they were stored
LatestChecks_unordered(id, n) ==
    LET all == SelectSeq(link_checks, LAMBDA r : r.link_id = id)
    IN  SubSeq(all, 1, IF Len(all) < n THEN Len(all) ELSE n)

\* .eq("link_id", id).order("fetched_at", desc).limit(n)
LatestChecks(id, n) ==
    LET all == Descending(SelectSeq(link_checks, LAMBDA r : r.link_id = id))
    IN  SubSeq(all, 1, IF Len(all) < n THEN Len(all) ELSE n)

\* listLinks up to the answer of its first query
ListLinks(s) ==
    /\ call[s].pc = "idle"
    /\ started < MaxRequests
    /\ started' = started + 1
    /\ \E storageUp \in BOOLEAN :
          LET c == [IdleCall EXCEPT !.handler = "listLinks", !.priorCount = Len(link_checks)]
          IN  call' = [call EXCEPT ![s] =
                  IF ~storageUp THEN Throw(c, AppError("Failed to fetch links", 500))
                  ELSE [c EXCEPT !.result = Some(monitored_links), !.pc = "latest"]]
    /\ UNCHANGED << card, tables, monitored_links, created, link_checks >>

\* the Promise.all of the latest check of each link; a failed query gives null
ListLatest(s) ==
    /\ call[s].pc = "latest"
    /\ \E storageUp \in BOOLEAN :
          LET c == call[s]
              latest(link) == IF storageUp THEN LatestChecks(link.id, 1) ELSE << >>
          IN  call' = [call EXCEPT ![s] =
                  Finish([c EXCEPT !.result =
                              Some({ [link |-> l, latest_check |-> latest(l)] :
                                       l \in Val(c.result) })],
                         JsonResponse(200))]
    /\ UNCHANGED << card, tables, monitored_links, created, link_checks, started >>

\* GET history: the UUID test
HistoryStart(s, id) ==
    /\ call[s].pc = "idle"
    /\ started < MaxRequests
    /\ started' = started + 1
    /\ LET c == [IdleCall EXCEPT !.handler = "history", !.id = id,
                                 !.priorCount = Len(link_checks)]
       IN  call' = [call EXCEPT ![s] =
               IF UuidRegexTest(IdText(id)) THEN [c EXCEPT !.pc = "historyLookup"]
               ELSE Finish(c, ErrorResponse("Invalid link ID format", 400))]
    /\ UNCHANGED << card, tables, monitored_links, created, link_checks >>

\* "Verify the link exists": .select("id").eq("id", id).single()
HistoryLookup(s) ==
    /\ call[s].pc = "historyLookup"
    /\ \E storageUp \in BOOLEAN :
          LET c == call[s]
          IN  call' = [call EXCEPT ![s] =
                  IF storageUp /\ c.id \in LinkIds THEN [c EXCEPT !.pc = "historyRead"]
                  ELSE Finish(c, ErrorResponse("Link not found", 404))]
    /\ UNCHANGED << card, tables, monitored_links, created, link_checks, started >>

\* "Fetch the last 5 checks"
HistoryRead(s) ==
    /\ call[s].pc = "historyRead"
    /\ \E storageUp \in BOOLEAN :
          LET c == call[s]
          IN  call' = [call EXCEPT ![s] =
                  IF ~storageUp
                  THEN Finish(c, ErrorResponse("Failed to fetch check history", 500))
                  ELSE Finish([c EXCEPT !.result = Some(LatestChecks(c.id, HISTORY_LIMIT))],
                              JsonResponse(200))]
    /\ UNCHANGED << card, tables, monitored_links, created, link_checks, started >>

\* the row of the monitored link the check requests are about
LINK_1 == [id |-> "L1", url |-> "https://example.com/page"]

Init ==
    /\ tables = "schema.sql"
    /\ monitored_links = { LINK_1 }
    /\ created = 0
    /\ link_checks = << >>
    /\ call = [s \in Slots |-> IdleCall]
    /\ started = 0
    /\ card = IdleCard

Next ==
    \E s \in SequentialSlots :
        \/ \E h \in Handlers, id \in RequestIds : Start(s, h, id)
        \/ Lookup(s)
        \/ Fetch(s)
        \/ SaveError(s)
        \/ LoadLast(s)
        \/ ModelRequest(s)
        \/ Insert(s)
        \/ Respond(s)

Spec == Init /\ [][Next]_vars

\* ------------------------------------------------------------------------
\* SpecLinks: the links handlers, the history route and runCheck, two requests at
\* a time, on a database created from either description of the tables and holding
\* one link, one link less than the cap, or as many links as the cap
\* ------------------------------------------------------------------------
SeedLink(i) ==
    IF i = 1 THEN LINK_1
    ELSE [id |-> "S" \o ToString(i), url |-> "https://example.com/s" \o ToString(i)]

SeedLinks(n) == { SeedLink(i) : i \in 1..n }

InitLinks ==
    /\ tables \in TableDefinitions
    /\ monitored_links \in { SeedLinks(1), SeedLinks(MAX_LINKS - 1), SeedLinks(MAX_LINKS) }
    /\ created = 0
    /\ link_checks = << >>
    /\ call = [s \in Slots |-> IdleCall]
    /\ started = 0
    /\ card = IdleCard

\* the environment of the checks of SpecLinks and SpecRetry: the site serves one of
\* two pages or answers HTTP 404, and storage takes the current-state read and the
\* insert's request
Steady(s) ==
    LET c == call[s]
    IN  /\ c.fetched \in { "", "ok", "http" }
        /\ c.cleanText \in { << >>, T_A, T_B }
        /\ c.read # "failed"
        /\ c.insertStorage # "down"

\* in SpecLinks the model answers or times out
Calm(s) ==
    /\ Steady(s)
    /\ \A i \in DOMAIN call[s].modelOutcomes :
          call[s].modelOutcomes[i] \in { RESPONSE_OK, ETIMEOUT }

NextLinks ==
    \E s \in Slots :
        \/ started < MaxRequests /\ Start(s, "runCheck", "L1")
        \/ Lookup(s)
        \/ Fetch(s) /\ Calm(s)'
        \/ SaveError(s) /\ Calm(s)'
        \/ LoadLast(s) /\ Calm(s)'
        \/ ModelRequest(s) /\ Calm(s)'
        \/ Insert(s) /\ Calm(s)'
        \/ Respond(s)
        \/ \E body \in Bodies : AddLinkStart(s, body)
        \/ CountLinks(s)
        \/ FindExisting(s)
        \/ InsertLink(s)
        \/ \E id \in { "L1", "L2", "bad" } : DeleteLink(s, id)
        \/ ListLinks(s)
        \/ ListLatest(s)
        \/ \E id \in { "L1", "bad" } : HistoryStart(s, id)
        \/ HistoryLookup(s)
        \/ HistoryRead(s)

SpecLinks == InitLinks /\ [][NextLinks]_vars

\* ------------------------------------------------------------------------
\* SpecRetry: runCheck of one link, one request at a time, on a database created
\* from either description of the tables, the model answering with every outcome
\* of RetryOutcomes
\* ------------------------------------------------------------------------
InitRetry ==
    /\ tables \in TableDefinitions
    /\ monitored_links = { LINK_1 }
    /\ created = 0
    /\ link_checks = << >>
    /\ call = [s \in Slots |-> IdleCall]
    /\ started = 0
    /\ card = IdleCard

NextRetry ==
    \E s \in SequentialSlots :
        \/ started < MaxRequests /\ Start(s, "runCheck", "L1")
        \/ Lookup(s)
        \/ Fetch(s) /\ Steady(s)'
        \/ SaveError(s) /\ Steady(s)'
        \/ LoadLast(s) /\ Steady(s)'
        \/ ModelRequestOf(s, RetryOutcomes)
        \/ Insert(s) /\ Steady(s)'
        \/ Respond(s)

SpecRetry == InitRetry /\ [][NextRetry]_vars

\* ------------------------------------------------------------------------
\* SpecRead: runCheck invocations of one link, one after the other, on either
\* table definition, where every storage request (the read of the current state
\* among them) may fail.
\* ------------------------------------------------------------------------
NextRead ==
    \E s \in SequentialSlots :
        \/ started < MaxChecks /\ Start(s, "runCheck", "L1")
        \/ Lookup(s)
        \/ Fetch(s)
        \/ SaveError(s)
        \/ LoadLast(s)
        \/ ModelRequestOf(s, { RESPONSE_OK })
        \/ Insert(s)
        \/ Respond(s)

SpecRead == InitRetry /\ [][NextRead]_vars

\* ------------------------------------------------------------------------
\* SpecLive: SpecRetry with the scheduling the handler gets.  runCheck is an async
\* function: after every await it goes on as soon as the awaited call settles, and
\* every awaited call settles (it returns, or its timeout fires).  Each step that
\* stays possible is therefore taken.  Nothing obliges a client to send a request
\* (Start).
\* ------------------------------------------------------------------------
\* what the handler in slot s does next: the steps of NextRetry but Start.  (The
\* current-state read is named without Steady: whenever LoadLast(s) is possible,
\* so is the step of NextRetry in which storage answers the read.)
StepRetry(s) ==
    \/ Lookup(s)
    \/ Fetch(s) /\ Steady(s)'
    \/ SaveError(s) /\ Steady(s)'
    \/ LoadLast(s)
    \/ ModelRequestOf(s, RetryOutcomes)
    \/ Insert(s) /\ Steady(s)'
    \/ Respond(s)

FairRetry == \A s \in SequentialSlots : WF_vars(StepRetry(s))

SpecLive == InitRetry /\ [][NextRetry]_vars /\ FairRetry

\* ------------------------------------------------------------------------
\* SpecHistory: the history route and runCheck, two requests at a time, on a
\* database that holds two links and a history of none, fewer than HISTORY_LIMIT
\* or more than HISTORY_LIMIT checks of the first link, with checks of the second
\* link in between
\* ------------------------------------------------------------------------
LINK_2 == SeedLink(2)

\* the i-th stored check: the first is a success row of LINK_1 (as the POST route
\* stores it), the others are error rows of failed fetches, every third of LINK_2
SeedCheck(i) ==
    IF i = 1
    THEN Row(LINK_1.id, "success", Some(T_A), Some(computeContentHash(T_A)), NULL, NULL)
    ELSE Row(IF i % 3 = 0 THEN LINK_2.id ELSE LINK_1.id, "error", NULL, NULL, NULL,
             Some("HTTP " \o ToString(500 + i) \o ": Error"))

SeedHistory(n) == [i \in 1..n |-> SeedCheck(i)]

InitHistory ==
    /\ tables \in TableDefinitions
    /\ monitored_links = { LINK_1, LINK_2 }
    /\ created = 0
    /\ link_checks \in { SeedHistory(n) : n \in { 0, HISTORY_LIMIT - 1, MaxSeededChecks } }
    /\ call = [s \in Slots |-> IdleCall]
    /\ started = 0
    /\ card = IdleCard

NextHistory ==
    \E s \in Slots :
        \/ started < MaxRequests /\ Start(s, "runCheck", "L1")
        \/ Lookup(s)
        \/ Fetch(s) /\ Calm(s)'
        \/ SaveError(s) /\ Calm(s)'
        \/ LoadLast(s) /\ Calm(s)'
        \/ ModelRequest(s) /\ Calm(s)'
        \/ Insert(s) /\ Calm(s)'
        \/ Respond(s)
        \/ \E id \in { "L1", LINK_2.id, "L2", "bad" } : HistoryStart(s, id)
        \/ HistoryLookup(s)
        \/ HistoryRead(s)

SpecHistory == InitHistory /\ [][NextHistory]_vars

\* ------------------------------------------------------------------------
\* SpecUrl: one POST /api/links request whose url is any of RawUrls, on a database
\* created from either description of the tables and holding one link
\* ------------------------------------------------------------------------
\* the body { url } of the request, with what was typed kept beside what new URL()
\* makes of it
RawBody(raw) == [given |-> TRUE, empty |-> FALSE, parsed |-> ParseUrl(raw), raw |-> raw]

InitUrl ==
    /\ tables \in TableDefinitions
    /\ monitored_links = { LINK_1 }
    /\ created = 0
    /\ link_checks = << >>
    /\ call = [s \in Slots |-> IdleCall]
    /\ started = 0
    /\ card = IdleCard

NextUrl ==
    \E s \in SequentialSlots :
        \/ call[s].pc = "idle" /\ \E raw \in RawUrls : AddLinkStart(s, RawBody(raw))
        \/ CountLinks(s)
        \/ FindExisting(s)
        \/ InsertLink(s)

SpecUrl == InitUrl /\ [][NextUrl]_vars

\* ------------------------------------------------------------------------
\* SpecCaps: the excerpts runCheck builds for the summarizer (step 4's page text,
\* step 7's removed and added text), on page texts and diffs whose lengths lie
\* around the caps.  A handler starts where the last check has been read and, in
\* the changed case, diffWords has returned.
\* ------------------------------------------------------------------------
\* how far from a cap the lengths go, either way
MaxExcess == 2

\* a word of n characters
Repeat(ch, n) == [i \in 1..n |-> ch]

LengthsAround(cap) == (cap - MaxExcess)..(cap + MaxExcess)

\* what diffWords returned: removed characters, then added characters in one part
\* or in two with an unchanged part between them; it returns no empty part
DiffOfLengths(removed, added, split) ==
    (IF removed = 0 THEN << >> ELSE << Part(Repeat("x", removed), "removed") >>)
    \o (IF added = 0 THEN << >>
        ELSE IF split /\ added > 2
        THEN << Part(Repeat("y", added - 2), "added"), Part(<< " ", "k", " " >>, "common"),
                Part(<< "z" >>, "added") >>
        ELSE << Part(Repeat("y", added), "added") >>)

DiffResults ==
    { DiffOfLengths(removed, added, split) :
        removed \in { 0 } \cup LengthsAround(DIFF_TEXT_MAX_CHARS),
        added \in { 0 } \cup LengthsAround(DIFF_TEXT_MAX_CHARS),
        split \in BOOLEAN } \ { << >> }

PageTexts ==
    { Repeat("x", n) : n \in { MIN_CONTENT_CHARS } \cup LengthsAround(BASELINE_TEXT_MAX_CHARS) }

\* runCheck past its read of the last check: without one, or with one of another
\* fingerprint and the diff computed
AtBaseline(cleanText) ==
    [IdleCall EXCEPT !.pc = "excerpt", !.handler = "runCheck", !.id = LINK_1.id,
                     !.fetched = "ok", !.extracted = TRUE, !.hashed = TRUE, !.read = "ok",
                     !.cleanText = cleanText, !.branch = "baseline"]

AtChanged(diffResult) ==
    [IdleCall EXCEPT !.pc = "excerpt", !.handler = "runCheck", !.id = LINK_1.id,
                     !.fetched = "ok", !.extracted = TRUE, !.hashed = TRUE, !.read = "ok",
                     !.branch = "changed", !.diffCalls = 1, !.diff = Some(diffResult)]

InitCaps ==
    /\ tables \in TableDefinitions
    /\ monitored_links = { LINK_1 }
    /\ created = 0
    /\ link_checks = << >>
    /\ \E c \in { AtBaseline(cleanText) : cleanText \in PageTexts }
                 \cup { AtChanged(diffResult) : diffResult \in DiffResults } :
          call = [s \in Slots |-> IF s \in SequentialSlots THEN c ELSE IdleCall]
    /\ started = 1
    /\ card = IdleCard

\* step 4: summarizeInitialPage(cleanText.slice(0, 3000))
BaselineExcerpt(s) ==
    /\ call[s].pc = "excerpt"
    /\ call[s].branch = "baseline"
    /\ LET c == call[s]
           pageText == Slice(c.cleanText, BASELINE_TEXT_MAX_CHARS)
       IN  call' = [call EXCEPT ![s] =
               [c EXCEPT !.summarizerCalls = @ + 1,
                         !.summarizerInput = << pageText >>,
                         !.pc = IF summarizeInitialPageSkips(pageText)
                                THEN "insert" ELSE "summarize"]]
    /\ UNCHANGED << card, tables, monitored_links, created, link_checks, started >>

\* step 7: summarizeChanges(removedText, addedText)
ChangedExcerpts(s) ==
    /\ call[s].pc = "excerpt"
    /\ call[s].branch = "changed"
    /\ LET c == call[s]
           diffResult == Val(c.diff)
       IN  call' = [call EXCEPT ![s] =
               [c EXCEPT !.summarizerCalls = @ + 1,
                         !.summarizerInput =
                             << removedText(diffResult), addedText(diffResult) >>,
                         !.pc = IF summarizeChangesSkips(removedText(diffResult),
                                                         addedText(diffResult))
                                THEN "insert" ELSE "summarize"]]
    /\ UNCHANGED << card, tables, monitored_links, created, link_checks, started >>

NextCaps ==
    \E s \in SequentialSlots :
        \/ BaselineExcerpt(s)
        \/ ChangedExcerpts(s)

SpecCaps == InitCaps /\ [][NextCaps]_vars

\* ------------------------------------------------------------------------
\* SpecExtract: one check of the stored link, by either handler, the site serving
\* any page of HtmlPages: up to MaxElements elements, each a block the extractor
\* removes or a piece of visible content, under a title or none
\* ------------------------------------------------------------------------
MaxElements == 2

\* the blocks whose payload is no content: what each kind holds
PayloadSelectors == { "script", "style", "noscript", "iframe", "svg" }

Payload(sel) ==
    CASE sel = "script" -> << "j", "s", "(", ")" >>
      [] sel = "style" -> << "c", "s", "s", "{", "}" >>
      [] sel = "noscript" -> << "n", "o", "j", "s" >>
      [] sel = "iframe" -> << "f", "r", "a", "m", "e" >>
      [] OTHER -> << "s", "v", "g" >>

HtmlElements ==
    { Element(sel, Payload(sel)) : sel \in PayloadSelectors }
        \cup { Element("p", T_A), Element("main", T_B), Element("div", << " " >> \o T_HELLO),
               Element("nav", << "m" >>) }

HtmlBodies == UNION { [1..n -> HtmlElements] : n \in 0..MaxElements }

HtmlPages == { [title |-> title, body |-> body] : title \in { << >>, << "t" >> }, body \in HtmlBodies }

HtmlOutcomes == { [kind |-> "ok", html |-> p] : p \in HtmlPages }

InitExtract ==
    /\ tables \in TableDefinitions
    /\ monitored_links = { LINK_1 }
    /\ created = 0
    /\ link_checks = << >>
    /\ call = [s \in Slots |-> IdleCall]
    /\ started = 0
    /\ card = IdleCard

NextExtract ==
    \E s \in SequentialSlots :
        \/ started = 0 /\ \E h \in Handlers : Start(s, h, "L1")
        \/ Lookup(s)
        \/ FetchOf(s, HtmlOutcomes)
        \/ SaveError(s)
        \/ LoadLast(s)
        \/ ModelRequestOf(s, { RESPONSE_OK })
        \/ Insert(s)
        \/ Respond(s)

SpecExtract == InitExtract /\ [][NextExtract]_vars

\* ------------------------------------------------------------------------
\* SpecLimit: POST /api/check/[id] behind the middleware (middleware.ts) with the
\* rate limiter configured.  ratelimit.limit(key) is the Upstash library's; what it
\* answers for a request is not decided by code of this repository, so either
\* answer is possible for every request.
\* ------------------------------------------------------------------------
TooManyRequests ==
    ErrorResponse("Too many requests. Please wait a minute before checking again.", 429)

\* middleware(request) for a POST under /api/check: the route handler runs when
\* the limiter answers success, and the request is answered 429 when it does not
Middleware(s, id) ==
    /\ call[s].pc = "idle"
    /\ \E success \in BOOLEAN :
          IF success
          THEN Start(s, "POST", id)
          ELSE /\ started < MaxChecks
               /\ started' = started + 1
               /\ call' = [call EXCEPT ![s] =
                      Finish([IdleCall EXCEPT !.handler = "middleware", !.id = id,
                                              !.priorCount = Len(link_checks)],
                             TooManyRequests)]
               /\ UNCHANGED << card, tables, monitored_links, created, link_checks >>

NextLimit ==
    \E s \in SequentialSlots :
        \/ \E id \in RequestIds : Middleware(s, id)
        \/ Lookup(s)
        \/ Fetch(s)
        \/ SaveError(s)
        \/ LoadLast(s)
        \/ ModelRequest(s)
        \/ Insert(s)
        \/ Respond(s)

SpecLimit == Init /\ [][NextLimit]_vars

\* ------------------------------------------------------------------------
\* SpecCard: one LinkCard in the browser (components/LinkCard.tsx): the Check Now
\* button, the check request it sends and the cooldown timer.  The server is what
\* the request comes back with.
\* ------------------------------------------------------------------------
COOLDOWN_SECONDS == 30

\* the longest wait a 429 response names, in seconds
MaxSecWait == 3

\* the button enabled whatever the cooldown
CheckNowDisabled_ignoresCooldown(c) == c.isChecking

\* disabled={isChecking || cooldown > 0}
CheckNowDisabled(c) == c.isChecking \/ c.cooldown > 0

\* what the fetch of handleCheck comes back with: a 2xx response; a 429 with an
\* x-ratelimit-reset header, secWait being Math.max(1, Math.ceil((reset - now) / 1000));
\* another response that is not ok (a 429 without the header among them); or a
\* rejection (no response, or a body that is not JSON)
CardOutcomes ==
    { [kind |-> "ok", secWait |-> 0], [kind |-> "notOk", secWait |-> 0],
      [kind |-> "rejected", secWait |-> 0] }
        \cup { [kind |-> "rateLimited", secWait |-> n] : n \in 1..MaxSecWait }

\* a click on Check Now: handleCheck up to its await
ClickCheck ==
    /\ ~CheckNowDisabled(card)
    /\ card.sent < MaxChecks
    /\ card' = [card EXCEPT !.isChecking = TRUE, !.error = NULL, !.checkResult = NULL,
                            !.sent = @ + 1]
    /\ UNCHANGED << tables, monitored_links, created, link_checks, call, started >>

\* handleCheck from its await on, the finally block included
CheckReturns ==
    /\ card.isChecking
    /\ \E r \in CardOutcomes :
          card' =
              CASE r.kind = "ok" ->
                       [card EXCEPT !.checkResult = Some("data"),
                                    !.cooldown = COOLDOWN_SECONDS,
                                    !.setBy = "success", !.ticks = 0,
                                    !.isChecking = FALSE]
                [] r.kind = "rateLimited" ->
                       [card EXCEPT !.cooldown = r.secWait,
                                    !.setBy = "rateLimit", !.ticks = 0,
                                    !.error = Some("Rate limit exceeded. Try again in "
                                                   \o ToString(r.secWait) \o " seconds."),
                                    !.isChecking = FALSE]
                [] r.kind = "notOk" ->
                       [card EXCEPT !.error = Some("Check failed"), !.isChecking = FALSE]
                [] OTHER ->
                       [card EXCEPT !.error = Some("Network error. Please try again."),
                                    !.isChecking = FALSE]
    /\ UNCHANGED << tables, monitored_links, created, link_checks, call, started >>

\* the interval of the cooldown effect firing, one second after the cooldown last
\* changed: setCooldown(prev => prev <= 1 ? 0 : prev - 1)
Tick ==
    /\ card.cooldown > 0
    /\ card' = [card EXCEPT !.cooldown = IF @ <= 1 THEN 0 ELSE @ - 1, !.ticks = @ + 1]
    /\ UNCHANGED << tables, monitored_links, created, link_checks, call, started >>

NextCard ==
    \/ ClickCheck
    \/ CheckReturns
    \/ Tick

SpecCard == Init /\ [][NextCard]_vars

\* ------------------------------------------------------------------------
\* Vocabulary of the properties
\* ------------------------------------------------------------------------
\* outcomes baseline, unchanged, changed as the status column stores them
NonFailedStatuses == { "initial_baseline", "no_change", "success" }

RunCheckDone(s) == call[s].pc = "done" /\ call[s].handler = "runCheck"

Resp(s) == Val(call[s].response)

\* the rows that were stored when the request in slot s started
PriorChecks(s) == SubSeq(link_checks, 1, call[s].priorCount)

\* the most recent row of `rows` for link `id` with a status in `statuses`
RECURSIVE LatestIn(_, _, _)
LatestIn(rows, id, statuses) ==
    IF rows = << >> THEN NULL
    ELSE IF rows[Len(rows)].link_id = id /\ rows[Len(rows)].status \in statuses
         THEN Some(rows[Len(rows)])
         ELSE LatestIn(SubSeq(rows, 1, Len(rows) - 1), id, statuses)

\* the resource's current state when the request in slot s started
CurrentState(s) == LatestIn(PriorChecks(s), call[s].id, NonFailedStatuses)

LastOutcome(c) == c.modelOutcomes[Len(c.modelOutcomes)]

\* the summarizer ended this invocation with the service-overload error
Overloaded(c) == c.modelOutcomes # << >> /\ LastOutcome(c) = E503

\* fetch and extraction succeeded, the current-state read returned, the summarizer
\* (if called) returned, and storage took the insert's request
PipelineRan(s) ==
    /\ RunCheckDone(s)
    /\ call[s].hashed
    /\ call[s].read = "ok"
    /\ ~Overloaded(call[s])

\* the one row this invocation stored is `row`, and it is the newest row
StoredExactly(s, row) ==
    /\ call[s].inserted = << row >>
    /\ link_checks = Append(PriorChecks(s), row)

\* ------------------------------------------------------------------------
\* C1 - A runCheck of a resource with no prior Observation, whose fetch and
\* extraction succeed, records and returns outcome initial_baseline and computes
\* no diff.  (The schema's CHECK on status rejects 'initial_baseline'.)
\* ------------------------------------------------------------------------
NoPriorObservation(s) ==
    \A i \in 1..call[s].priorCount : link_checks[i].link_id # call[s].id

C1_BaselineRecorded ==
    \A s \in Slots :
        (PipelineRan(s) /\ NoPriorObservation(s) /\ call[s].insertStorage = "up")
            => /\ Resp(s).http = 200
               /\ Resp(s).status = "initial_baseline"
               /\ Len(call[s].inserted) = 1
               /\ call[s].inserted[1].status = "initial_baseline"
               /\ call[s].diffCalls = 0

\* ------------------------------------------------------------------------
\* C2 - A runCheck whose fetch and extraction succeed and whose fingerprint
\* equals that of the resource's last non-failed Observation takes the no_change
\* branch: no summarizer call, no model request, no diff; one insert of a row
\* with the new text and fingerprint and a null summary, answered no_change.
\* ------------------------------------------------------------------------
FingerprintEqual(s) ==
    /\ CurrentState(s) # NULL
    /\ Val(CurrentState(s)).content_hash = Some(computeContentHash(call[s].cleanText))

FingerprintDiffers(s) ==
    /\ CurrentState(s) # NULL
    /\ Val(CurrentState(s)).content_hash # Some(computeContentHash(call[s].cleanText))

OnlyFailedBefore(s) ==
    /\ CurrentState(s) = NULL
    /\ \E i \in 1..call[s].priorCount :
          link_checks[i].link_id = call[s].id /\ link_checks[i].status = "error"

ComparedWithCurrentState(s) ==
    /\ call[s].lastCheck = CurrentState(s)
    /\ call[s].branch = "changed"
          => call[s].diff = Some(diffWords(Val(Val(CurrentState(s)).raw_content),
                                           call[s].cleanText))

C4_FailedNeverAdvances ==
    \A s \in Slots :
        (PipelineRan(s) /\ call[s].insertStorage = "up")
            => /\ ComparedWithCurrentState(s)
               /\ OnlyFailedBefore(s)
                    => /\ Resp(s).status = "initial_baseline"
                       /\ Len(call[s].inserted) = 1

\* ------------------------------------------------------------------------
\* C5 - When the page fetch fails (HTTP status, timeout, network error) runCheck
\* makes one insert of an error row carrying the fetch error's message, answers
\* 200 with status error, and runs no extraction, hash, current-state read, diff
\* or summarizer call.
\* ------------------------------------------------------------------------
FetchFailed(s) == call[s].fetched \in { "http", "timeout", "network" }

C5_FetchFailureRecorded ==
    \A s \in Slots :
        (RunCheckDone(s) /\ FetchFailed(s))
            => LET c == call[s]
                   row == Row(c.id, "error", NULL, NULL, NULL, Some(c.errorMessage))
               IN  /\ c.errorMessage \notin { "", "Unknown fetch error" }
                   /\ c.fetched = "timeout" => c.errorMessage = "Request timed out after 8s"
                   /\ c.fetched = "http" => c.errorMessage = "HTTP 404: Not Found"
                   /\ Resp(s).http = 200 /\ Resp(s).status = "error" /\ Resp(s).diff = NULL
                   /\ ~c.extracted /\ ~c.hashed /\ c.read = ""
                   /\ c.diffCalls = 0 /\ c.summarizerCalls = 0 /\ c.modelOutcomes = << >>
                   /\ c.insertAttempts = 1
                   /\ c.insertStorage = "up"
                        => StoredExactly(s, row) /\ Resp(s).check = Some(row)

C5_Witness ==
    \E s \in Slots :
        /\ RunCheckDone(s) /\ call[s].fetched = "timeout"
        /\ Len(call[s].inserted) = 1
        /\ call[s].inserted[1].error_message = Some("Request timed out after 8s")
        /\ Resp(s).status = "error"

\* ------------------------------------------------------------------------
\* C6 - When the fetch succeeds and the extracted text is empty or shorter than
\* 10 characters, runCheck records an error row saying the content could not be
\* extracted and neither hashes nor summarizes; a text of 10 characters or more
\* is hashed.
\* ------------------------------------------------------------------------
C6_ShortTextIsFailure ==
    \A s \in Slots :
        (call[s].handler = "runCheck" /\ call[s].extracted)
            => LET c == call[s]
                   row == Row(c.id, "error", NULL, NULL, NULL, Some(ExtractErrorMessage))
               IN  /\ Len(c.cleanText) >= MIN_CONTENT_CHARS
                        => c.hashed /\ c.contentHash = Some(computeContentHash(c.cleanText))
                   /\ Len(c.cleanText) < MIN_CONTENT_CHARS
                        => /\ ~c.hashed /\ c.read = ""
                           /\ c.summarizerCalls = 0 /\ c.diffCalls = 0
                           /\ c.errorMessage = ExtractErrorMessage
                           /\ c.pc = "done"
                                => /\ Resp(s).http = 200 /\ Resp(s).status = "error"
                                   /\ c.insertAttempts = 1
                                   /\ c.insertStorage = "up" => StoredExactly(s, row)

\* a 5-character text was recorded as a failure, and a text of exactly 10
\* characters is being hashed
C6_Witness ==
    /\ \E i \in DOMAIN link_checks :
          link_checks[i].error_message = Some(ExtractErrorMessage)
    /\ \E s \in Slots :
          /\ call[s].handler = "runCheck" /\ call[s].extracted
          /\ Len(call[s].cleanText) = MIN_CONTENT_CHARS
          /\ call[s].hashed

SoftFailure(c) ==
    /\ c.modelOutcomes # << >>
    /\ \/ LastOutcome(c) \in { RESPONSE_MALFORMED, ETIMEOUT, EOTHER }
       \/ LastOutcome(c) = E429 /\ Len(c.modelOutcomes) = MAX_RETRIES + 1

SavedWithNullSummary(s) ==
    /\ call[s].diffSummary = NULL
    /\ Resp(s).http = 200
    /\ Len(call[s].inserted) = 1
    /\ call[s].inserted[1].diff_summary = NULL
    /\ call[s].inserted[1].status \in { "initial_baseline", "success" }
    /\ link_checks = Append(PriorChecks(s), call[s].inserted[1])

C8_SoftFailureStillSaved ==
    \A s \in Slots :
        (RunCheckDone(s) /\ SoftFailure(call[s]) /\ call[s].insertStorage = "up")
            => SavedWithNullSummary(s)

\* ------------------------------------------------------------------------
\* C9 - In every branch of runCheck a failed Observation insert is answered with
\* a server error (5xx); no success envelope is sent for a check that was not
\* saved.
\* ------------------------------------------------------------------------
C9_InsertFailureIsServerError ==
    \A s \in Slots :
        (RunCheckDone(s) /\ call[s].insertAttempts = 1 /\ call[s].inserted = << >>)
            => Resp(s).http >= 500 /\ Resp(s).status = ""

\* ------------------------------------------------------------------------
\* C10 - A runCheck invocation that ends in the baseline, unchanged, changed or
\* failed branch has attempted exactly one Observation insert, and no invocation
\* attempts or stores more than one.
\* ------------------------------------------------------------------------
EndedInBranch(s) ==
    /\ RunCheckDone(s)
    /\ call[s].branch \in { "baseline", "unchanged", "changed", "failed" }
    /\ ~Overloaded(call[s])

C10_OneInsertPerInvocation ==
    \A s \in Slots :
        call[s].handler = "runCheck"
            => /\ call[s].insertAttempts <= 1
               /\ Len(call[s].inserted) <= 1
               /\ Len(link_checks) = call[s].priorCount + Len(call[s].inserted)
               /\ EndedInBranch(s) => call[s].insertAttempts = 1

C10_Witness ==
    \E s \in Slots :
        /\ EndedInBranch(s)
        /\ call[s].branch = "changed"
        /\ call[s].insertAttempts = 1
        /\ Len(link_checks) = call[s].priorCount + 1

\* ------------------------------------------------------------------------
\* C11 - A runCheck whose identifier does not match the UUID format is answered
\* 400, and one whose identifier names no stored link is answered 404; in both
\* cases no fetch is attempted, no insert is attempted and the stored Observations
\* are those stored when the request started.
\* ------------------------------------------------------------------------
\* the identifier has a character that is neither a hex digit nor a dash
MalformedId(s) ==
    LET str == IdText(call[s].id)
    IN  \E i \in 1..Len(str) : str[i] \notin HexChars /\ str[i] # "-"

UnknownId(s) == ~MalformedId(s) /\ call[s].id \notin LinkIds

C11_InputErrorsRejected ==
    \A s \in Slots :
        (RunCheckDone(s) /\ (MalformedId(s) \/ UnknownId(s)))
            => /\ MalformedId(s)
                    => Resp(s) = ErrorResponse("Invalid link ID format", 400)
               /\ UnknownId(s) => Resp(s) = ErrorResponse("Link not found", 404)
               /\ call[s].fetched = "" /\ ~call[s].extracted
               /\ call[s].insertAttempts = 0 /\ call[s].inserted = << >>
               /\ link_checks = PriorChecks(s)

\* a malformed identifier was answered 400 after Observations had been stored
C11_Witness ==
    \E s \in Slots :
        /\ RunCheckDone(s) /\ MalformedId(s)
        /\ Resp(s).http = 400
        /\ link_checks # << >>

\* ------------------------------------------------------------------------
\* C12 - Every stored Observation either has its text and its fingerprint and no
\* error detail (statuses initial_baseline, no_change, success), or has an error
\* detail and neither text nor fingerprint (status error).
\* ------------------------------------------------------------------------
C12_TextXorError ==
    \A i \in DOMAIN link_checks :
        LET r == link_checks[i]
        IN  /\ r.status \in NonFailedStatuses \cup { "error" }
            /\ r.status \in NonFailedStatuses
                 => r.raw_content # NULL /\ r.content_hash # NULL /\ r.error_message = NULL
            /\ r.status = "error"
                 => r.error_message # NULL /\ r.raw_content = NULL /\ r.content_hash = NULL

\* a failed Observation stored after a baseline Observation
C12_Witness ==
    \E i, j \in DOMAIN link_checks :
        /\ i < j
        /\ link_checks[i].status = "initial_baseline"
        /\ link_checks[j].status = "error"

\* ------------------------------------------------------------------------
\* C13 - Observation history is append-only.  Every step of runCheck, addLink,
\* listLinks and the history route leaves the stored Observations as they were or
\* appends to them; the only step that removes Observations is a deleteLink, and
\* it removes exactly the Observations of the link it deletes.
\* ------------------------------------------------------------------------
IsAppend(old, new) == Len(new) >= Len(old) /\ SubSeq(new, 1, Len(old)) = old

\* in this step the request in slot s is a deleteLink of `id` that the database
\* executed
DeleteLinkStep(s, id) ==
    /\ call[s].pc = "idle"
    /\ call'[s].pc = "done" /\ call'[s].handler = "deleteLink" /\ call'[s].id = id
    /\ Val(call'[s].response).http = 200

C13_AppendOnly ==
    [][ \/ IsAppend(link_checks, link_checks')
        \/ \E s \in Slots :
              /\ DeleteLinkStep(s, call'[s].id)
              /\ link_checks' = SelectSeq(link_checks, LAMBDA r : r.link_id # call'[s].id)
      ]_vars

\* a deleteLink has removed the Observation a runCheck stored, and that runCheck's
\* response is still to be sent
C13_Witness ==
    \E s, d \in Slots :
        /\ call[s].handler = "runCheck" /\ call[s].pc = "done"
        /\ call[s].inserted # << >>
        /\ call[d].handler = "deleteLink" /\ call[d].pc = "done"
        /\ call[d].id = call[s].id
        /\ Val(call[d].response).http = 200
        /\ link_checks = << >>

\* ------------------------------------------------------------------------
\* C14 - Every stored Observation references a stored link, also while a
\* deleteLink interleaves with a runCheck of the same link, and after a deleteLink
\* the database executed neither the link nor any Observation of it is stored.
\* ------------------------------------------------------------------------
C14_NoOrphanObservation ==
    /\ \A i \in DOMAIN link_checks : link_checks[i].link_id \in LinkIds
    /\ \A s \in Slots :
          (call[s].handler = "deleteLink" /\ call[s].pc = "done"
              /\ Val(call[s].response).http = 200)
            => /\ call[s].id \notin LinkIds
               /\ \A i \in DOMAIN link_checks : link_checks[i].link_id # call[s].id

\* a runCheck that had found its link made its insert after a deleteLink of that
\* link, on tables that accept every status runCheck writes: the insert was refused
C14_Witness ==
    \E s, d \in Slots :
        /\ tables = "types.ts"
        /\ call[s].handler = "runCheck" /\ call[s].pc = "done"
        /\ call[s].insertAttempts = 1 /\ call[s].insertStorage = "up"
        /\ call[s].inserted = << >>
        /\ call[d].handler = "deleteLink" /\ call[d].pc = "done"
        /\ call[d].id = call[s].id
        /\ Val(call[d].response).http = 200

\* ------------------------------------------------------------------------
\* C15 - In every reachable state no two stored links have the same URL, whatever
\* the interleaving of addLink and deleteLink requests.
\* ------------------------------------------------------------------------
C15_UrlUnique ==
    \A l1, l2 \in monitored_links : l1.url = l2.url => l1 = l2

\* two addLink requests of one normalized URL both passed the duplicate check; the
\* table took the row of one and refused the row of the other
C15_Witness ==
    \E s, t \in Slots :
        /\ s # t
        /\ tables = "types.ts"
        /\ call[s].handler = "addLink" /\ call[t].handler = "addLink"
        /\ call[s].normalizedUrl = call[t].normalizedUrl
        /\ call[s].pc = "done" /\ Val(call[s].response).http = 201
        /\ call[t].pc = "done" /\ call[t].read = "ok"
        /\ Val(call[t].response) = ErrorResponse("Failed to add link", 500)

\* ------------------------------------------------------------------------
\* C16 - addLink of a URL whose normalized form is the URL of a stored link is
\* rejected as a duplicate (409, 'This URL is already being monitored.') and
\* creates nothing.  (When the table is at the cap the cap's 400 comes first.)
\* ------------------------------------------------------------------------
\* the request in slot s is an addLink that has ended, its URL normalizes to the
\* URL of LINK_1, and LINK_1 is stored (link ids are never given twice, so it was
\* stored all through the request)
AddsDuplicate(s) ==
    /\ call[s].handler = "addLink" /\ call[s].pc = "done"
    /\ call[s].body # NULL /\ Val(call[s].body).parsed # NULL
    /\ normalizeUrlForStorage(Val(call[s].body).parsed).url = LINK_1.url
    /\ LINK_1 \in monitored_links

\* storage answered the reads the request made
ReadsAnswered(s) == call[s].count # NULL /\ call[s].read # "failed"

CreatedNothing(s) ==
    /\ call[s].result = NULL
    /\ Cardinality({ l \in monitored_links : l.url = LINK_1.url }) = 1

DuplicateResponse == ErrorResponse("This URL is already being monitored.", 409)

\* the claim as stated
C16_DuplicateIs409 ==
    \A s \in Slots :
        (AddsDuplicate(s) /\ ReadsAnswered(s))
            => Resp(s) = DuplicateResponse /\ CreatedNothing(s)

\* as amended: 409 below the cap, the cap's 400 at the cap, nothing created in
\* either case; and the spec's scenario URL normalizes to https://example.com/page
C16_DuplicateRejected ==
    \A s \in Slots :
        /\ (call[s].handler = "addLink" /\ call[s].body # NULL
               /\ Val(call[s].body).parsed = RAW_TRACKED /\ call[s].pc # "done")
             => call[s].normalizedUrl = "https://example.com/page"
        /\ AddsDuplicate(s)
             => /\ Resp(s).http >= 400
                /\ CreatedNothing(s)
                /\ ReadsAnswered(s) /\ Val(call[s].count) < MAX_LINKS
                     => Resp(s) = DuplicateResponse
                /\ ReadsAnswered(s) /\ Val(call[s].count) >= MAX_LINKS
                     => Resp(s) = ErrorResponse(CapMessage, 400)

\* http://www.example.com/page/?utm_source=x was rejected as a duplicate of
\* https://example.com/page
C16_Witness ==
    \E s \in Slots :
        /\ AddsDuplicate(s) /\ ReadsAnswered(s)
        /\ Val(call[s].body).parsed = RAW_TRACKED
        /\ Resp(s) = DuplicateResponse

\* ------------------------------------------------------------------------
\* C17 - the number of stored links never exceeds MAX_LINKS, whatever the
\* interleaving of addLink and deleteLink; an addLink that counts MAX_LINKS
\* links is rejected with a client error and creates nothing.
\* ------------------------------------------------------------------------
C17_CapNeverExceeded ==
    /\ Cardinality(monitored_links) <= MAX_LINKS
    /\ \A s \in Slots :
           (call[s].handler = "addLink" /\ call[s].pc = "done"
              /\ call[s].count # NULL /\ Val(call[s].count) >= MAX_LINKS)
               => /\ Resp(s) = ErrorResponse(CapMessage, 400)
                  /\ call[s].result = NULL

\* ------------------------------------------------------------------------
\* C18 - one summarizer call makes at most MAX_RETRIES + 1 model requests, and
\* a further request follows only a 429 error: any other outcome of a request
\* (a summary, a timeout, a 503, a malformed response, another error) ends the
\* loop.
\* ------------------------------------------------------------------------
\* modelOutcomes[i] is what the i-th model request of the call came back with
RateLimited(o) == o.kind # "ok" /\ o.has429

C18_RetryOnly429 ==
    \A s \in Slots :
        LET c == call[s]
            n == Len(c.modelOutcomes)
        IN  /\ n <= MAX_RETRIES + 1
            /\ c.attempt <= MAX_RETRIES
            /\ \A i \in 1..(n - 1) : RateLimited(c.modelOutcomes[i])
            /\ c.pc = "summarize" => c.attempt = n
            /\ (n > 0 /\ ~RateLimited(c.modelOutcomes[n])) => c.pc # "summarize"
            /\ n = MAX_RETRIES + 1 => c.pc # "summarize"

\* three requests were made, each answered 429, and the call ended without a
\* summary
C18_Witness ==
    /\ \E s \in Slots : /\ Len(call[s].modelOutcomes) = MAX_RETRIES + 1
                        /\ call[s].pc = "done"
                        /\ RateLimited(call[s].modelOutcomes[MAX_RETRIES + 1])
                        /\ call[s].diffSummary = NULL

\* ------------------------------------------------------------------------
\* C19 - when a model request is answered 429 on an attempt that is not the
\* last one and a later attempt succeeds, the summarizer returns that summary
\* (not null), and the row runCheck records carries it.
\* ------------------------------------------------------------------------
\* the call in slot s got a summary after at least one 429
SucceededOnRetry(s) ==
    LET o == call[s].modelOutcomes
    IN  /\ Len(o) >= 2
        /\ \A i \in 1..(Len(o) - 1) : o[i].kind # "ok" /\ o[i].has429
        /\ o[Len(o)].kind = "ok"

C19_RetrySummaryKept ==
    \A s \in Slots :
        SucceededOnRetry(s)
            => /\ call[s].diffSummary = Some(SUMMARY)
               /\ \A i \in 1..Len(call[s].inserted) :
                      call[s].inserted[i].diff_summary = Some(SUMMARY)
               /\ (call[s].pc = "done" /\ Resp(s).http = 200)
                      => /\ Len(call[s].inserted) = 1
                         /\ Resp(s).check = Some(call[s].inserted[1])
               /\ (call[s].pc = "done" /\ call[s].branch = "changed"
                      /\ call[s].insertStorage = "up")
                      => Resp(s).http = 200

\* a 429, then a summary, and the row with that summary was recorded and returned
C19_Witness ==
    \E s \in Slots :
        /\ call[s].handler = "runCheck" /\ call[s].pc = "done"
        /\ call[s].modelOutcomes = << E429, RESPONSE_OK >>
        /\ Len(call[s].inserted) = 1
        /\ call[s].inserted[1].diff_summary = Some(SUMMARY)
        /\ \E i \in 1..Len(link_checks) : link_checks[i] = call[s].inserted[1]

\* ------------------------------------------------------------------------
\* C20 - before a retry the summarizer waits the delay the 429 error names
\* (retryDelay of N seconds: N * 1000 ms), and when the error names none a
\* fallback delay that grows strictly with the attempt number.
\* ------------------------------------------------------------------------
\* the error names a delay of a whole number of seconds: digits, then s
NamesWholeSeconds(o) ==
    /\ Len(o.retryDelay) >= 2
    /\ o.retryDelay[Len(o.retryDelay)] = "s"
    /\ \A i \in 1..(Len(o.retryDelay) - 1) : IsDigit(o.retryDelay[i])

NamedSeconds(o) == ParseInt(SubSeq(o.retryDelay, 1, Len(o.retryDelay) - 1), 0)

OverlappingChecks(s, t) ==
    /\ s # t
    /\ PipelineRan(s) /\ PipelineRan(t)
    /\ call[s].id = call[t].id /\ call[s].id \in LinkIds
    /\ call[s].cleanText = call[t].cleanText
    /\ call[s].insertStorage = "up" /\ call[t].insertStorage = "up"

\* the two rows are the same outcome twice (one of them redundant), or the later
\* one records that nothing changed since the earlier one
OneCorrectOneRedundant(first, second) ==
    /\ first.content_hash = second.content_hash
    /\ first.raw_content = second.raw_content
    /\ second.status \in { first.status, "no_change" }

C21_OverlapKeepsBoth ==
    \A s, t \in Slots :
        OverlappingChecks(s, t)
            => /\ Len(call[s].inserted) = 1 /\ Len(call[t].inserted) = 1
               /\ \E i, j \in DOMAIN link_checks :
                      /\ i < j
                      /\ { link_checks[i], link_checks[j] }
                             = { call[s].inserted[1], call[t].inserted[1] }
                      /\ << link_checks[i], link_checks[j] >>
                             \in { << call[s].inserted[1], call[t].inserted[1] >>,
                                   << call[t].inserted[1], call[s].inserted[1] >> }
                      /\ OneCorrectOneRedundant(link_checks[i], link_checks[j])

\* ------------------------------------------------------------------------
\* C22 - every runCheck invocation ends with a response, as long as every
\* awaited call settles; the summarizer's retry loop in particular ends.
\* ------------------------------------------------------------------------
InProgress(s) == call[s].handler = "runCheck" /\ call[s].pc \notin { "idle", "done" }

Responded(s) == call[s].pc = "done" /\ call[s].response # NULL

C22_AlwaysResponds ==
    \A s \in Slots : InProgress(s) ~> Responded(s)

\* a response after the retry loop used all its attempts, and after a refused insert
C22_Witness ==
    \E s \in Slots :
        /\ call[s].handler = "runCheck" /\ Responded(s)
        /\ Len(call[s].modelOutcomes) = MAX_RETRIES + 1
        /\ call[s].insertAttempts = 1 /\ call[s].inserted = << >>
        /\ Resp(s).http = 500

\* ------------------------------------------------------------------------
\* C23 - runCheck's success envelope carries the outcome kind and the row that
\* was stored, and the diff segments only when the outcome is changed: the diff
\* member is null for unchanged and failed outcomes and an empty sequence for
\* baseline.
\* ------------------------------------------------------------------------
\* the envelope names the outcome and carries the row this invocation stored
CarriesStoredRow(s) ==
    /\ Resp(s).status \in NonFailedStatuses \cup { "error" }
    /\ call[s].insertStorage = "up" /\ call[s].id \in LinkIds
           => /\ Len(call[s].inserted) = 1
              /\ Resp(s).check = Some(call[s].inserted[1])
              /\ Resp(s).status = call[s].inserted[1].status

CarriesComputedDiff(s) ==
    Resp(s).status = "success" => Resp(s).diff # NULL /\ Resp(s).diff = call[s].diff

\* the claim as stated: no diff member but for changed
C23_DiffOnlyWhenChanged ==
    \A s \in Slots :
        (RunCheckDone(s) /\ Resp(s).http = 200)
            => /\ CarriesStoredRow(s)
               /\ CarriesComputedDiff(s)
               /\ Resp(s).status # "success" => Resp(s).diff = NULL

\* as amended
C23_DiffByOutcome ==
    \A s \in Slots :
        (RunCheckDone(s) /\ Resp(s).http = 200)
            => /\ CarriesStoredRow(s)
               /\ CarriesComputedDiff(s)
               /\ Resp(s).status \in { "no_change", "error" } => Resp(s).diff = NULL
               /\ Resp(s).status = "initial_baseline" => Resp(s).diff = Some(<< >>)

\* a changed outcome answered with its segments, after a baseline was stored
C23_Witness ==
    \E s \in Slots :
        /\ RunCheckDone(s) /\ Resp(s).status = "success"
        /\ Resp(s).diff # NULL /\ Len(Val(Resp(s).diff)) > 1
        /\ Resp(s).check = Some(link_checks[Len(link_checks)])
        /\ link_checks[1].status = "initial_baseline"

\* ------------------------------------------------------------------------
\* C24 - the history route, for a stored link, answers with at most
\* HISTORY_LIMIT checks: the link's most recent ones of any status (all of them
\* if there are fewer), newest first, and none of another link.
\* ------------------------------------------------------------------------
\* the positions in `rows` of the checks of link `id`
ChecksOf(rows, id) == { i \in DOMAIN rows : rows[i].link_id = id }

\* `answer` is the newest HISTORY_LIMIT checks of link `id` in `rows`, newest first
IsRecentHistory(answer, rows, id) ==
    LET mine == ChecksOf(rows, id)
        newer(i) == Cardinality({ m \in mine : m > i })
    IN  /\ Len(answer) <= HISTORY_LIMIT
        /\ Len(answer) = IF Cardinality(mine) < HISTORY_LIMIT
                         THEN Cardinality(mine) ELSE HISTORY_LIMIT
        /\ \A j \in 1..Len(answer) :
               /\ answer[j].link_id = id
               /\ \E i \in mine : newer(i) = j - 1 /\ answer[j] = rows[i]

\* the step in which the request in slot s reads the history and answers 200
HistoryAnswered(s) ==
    /\ call[s].pc = "historyRead"
    /\ call'[s].pc = "done"
    /\ Val(call'[s].response).http = 200

C24_HistoryIsRecent ==
    [][ \A s \in Slots :
            HistoryAnswered(s)
                => /\ call[s].id \in LinkIds
                   /\ IsRecentHistory(Val(call'[s].result), link_checks, call[s].id) ]_vars

\* an answer of HISTORY_LIMIT checks of a link that has more, the newest of them
\* stored by a runCheck after the history request had started
C24_Witness ==
    \E s \in Slots :
        /\ call[s].handler = "history" /\ call[s].pc = "done" /\ Resp(s).http = 200
        /\ Len(Val(call[s].result)) = HISTORY_LIMIT
        /\ Cardinality(ChecksOf(link_checks, call[s].id)) > HISTORY_LIMIT
        /\ Len(link_checks) > call[s].priorCount
        /\ Val(call[s].result)[1] = link_checks[Len(link_checks)]
        /\ \E i \in DOMAIN link_checks : link_checks[i].link_id # call[s].id

\* ------------------------------------------------------------------------
\* C25 - the segments the changed branch computes with diffWords(A, B) give A
\* back when the segments that are not added are concatenated, and B when the
\* segments that are not removed are.  (diffWords takes whitespace for equal and
\* gives the new text's whitespace in the common segments.)
\* ------------------------------------------------------------------------
RECURSIVE ConcatValues(_)
ConcatValues(ps) ==
    IF ps = << >> THEN << >> ELSE Head(ps).value \o ConcatValues(Tail(ps))

WithoutAdded(ps) == ConcatValues(SelectSeq(ps, LAMBDA p : ~p.added))

WithoutRemoved(ps) == ConcatValues(SelectSeq(ps, LAMBDA p : ~p.removed))

\* the text the changed branch compared with: lastCheck.raw_content ?? ""
ComparedText(c) ==
    IF c.lastCheck = NULL \/ Val(c.lastCheck).raw_content = NULL THEN << >>
    ELSE Val(Val(c.lastCheck).raw_content)

C25_DiffRoundTrip ==
    \A s \in Slots :
        (call[s].handler = "runCheck" /\ call[s].branch = "changed" /\ call[s].diff # NULL)
            => /\ WithoutAdded(Val(call[s].diff)) = ComparedText(call[s])
               /\ WithoutRemoved(Val(call[s].diff)) = call[s].cleanText

\* ------------------------------------------------------------------------
\* The url normalization (lib/url-utils.ts), under SpecUrl
\* ------------------------------------------------------------------------
\* the request in slot s is a POST /api/links whose url was typed as one of RawUrls
UrlGiven(s) ==
    /\ call[s].handler = "addLink"
    /\ call[s].body # NULL
    /\ "raw" \in DOMAIN Val(call[s].body)

TypedUrl(s) == Val(call[s].body).raw

\* normalizeUrlForStorage returned a string for the url of slot s, which addLink
\* goes on with
UrlAccepted(s) == UrlGiven(s) /\ call[s].normalizedUrl # ""

\* addLink has just called normalizeUrlForStorage: it is about to count the links,
\* or it has answered with the Error normalizeUrlForStorage threw
JustNormalized(s) ==
    /\ UrlGiven(s)
    /\ \/ call[s].pc = "count"
       \/ call[s].pc = "done" /\ call[s].normalizedUrl = ""

\* a name of each tracking family: utm_*, the click ids, ref, source, campaign, mc_*
TrackingNames ==
    { << "u", "t", "m", "_", "s", "o", "u", "r", "c", "e" >>,
      << "f", "b", "c", "l", "i", "d" >>,
      << "g", "c", "l", "i", "d" >>,
      << "m", "s", "c", "l", "k", "i", "d" >>,
      << "t", "w", "c", "l", "i", "d" >>,
      << "r", "e", "f" >>,
      << "s", "o", "u", "r", "c", "e" >>,
      << "c", "a", "m", "p", "a", "i", "g", "n" >>,
      << "m", "c", "_", "c", "i", "d" >> }

\* the url with parameter p put after its first i parameters
WithParam(raw, i, p) ==
    [raw EXCEPT !.search = SubSeq(@, 1, i) \o << p >> \o SubSeq(@, i + 1, Len(@))]

\* how many times parameter p occurs in a query
Occurrences(search, p) == Cardinality({ i \in DOMAIN search : search[i] = p })

\* C26: normalizeUrlForStorage removes every query parameter with a tracking name
\* and keeps every other one, so a url with a tracking parameter added anywhere in
\* its query normalizes to what the url normalizes to: the same string, or the
\* same error.
C26_TrackingRemoved ==
    \A s \in Slots :
        JustNormalized(s) =>
            LET raw == TypedUrl(s)
            IN  /\ \A name \in TrackingNames, i \in 0..Len(raw.search) :
                       NormalizeRaw(WithParam(raw, i, Param(name, "v"))) = NormalizeRaw(raw)
                /\ UrlAccepted(s) =>
                       /\ call[s].normalizedUrl = NormalizeRaw(raw).url
                       /\ \A p \in RawParams :
                              Occurrences(NormalizeParsed(Val(ParseUrl(raw))).search, p)
                                  = IF p.key \in TrackingNames THEN 0
                                    ELSE Occurrences(raw.search, p)

\* a url typed with a tracking parameter and another one was normalized to the
\* string the url without the tracking parameter is normalized to
C26_Witness ==
    \E s \in Slots :
        /\ JustNormalized(s)
        /\ UrlAccepted(s)
        /\ TypedUrl(s).search = << P_UTM, P_B1 >>
        /\ call[s].normalizedUrl = NormalizeRaw([TypedUrl(s) EXCEPT !.search = << P_B1 >>]).url
        /\ call[s].normalizedUrl # NormalizeRaw([TypedUrl(s) EXCEPT !.search = << >>]).url

\* parsedUrl.toString() for a URL without credentials and port
RenderUrl(u) ==
    u.protocol \o "//" \o JoinLabels(u.hostname) \o JoinChars(u.pathname)
        \o (IF u.search = << >> THEN "" ELSE "?" \o SearchString(u.search))
        \o u.hash

\* the parts of the string normalizeUrlForStorage returns for the parsed url u:
\* those of the normalized URL, but for the "/" that .replace(/\/$/, "") takes from
\* the end of the string, which is the end of the path when there is no query
ReturnedUrl(u) ==
    LET n == NormalizeParsed(u)
        last == Len(n.pathname)
    IN  IF n.search = << >> /\ last > 0 /\ n.pathname[last] = "/"
        THEN [n EXCEPT !.pathname = SubSeq(@, 1, last - 1)]
        ELSE n

StartsWithWww(hostname) == Len(hostname) > 1 /\ Head(hostname) = "www"

EndsWithSlash(pathname) == Len(pathname) > 1 /\ pathname[Len(pathname)] = "/"

\* C27: every URL normalizeUrlForStorage returns has scheme https, a host name
\* that does not start with "www.", no fragment, and a path that does not end with
\* a slash unless it is the root path.
C27_ReturnedShape ==
    \A s \in Slots :
        (JustNormalized(s) /\ UrlAccepted(s)) =>
            LET r == ReturnedUrl(Val(ParseUrl(TypedUrl(s))))
            IN  /\ call[s].normalizedUrl = RenderUrl(r)
                /\ r.protocol = "https:"
                /\ ~StartsWithWww(r.hostname)
                /\ r.hash = ""
                /\ ~EndsWithSlash(r.pathname)

\* the typed url begins with a scheme other than http and https
OtherScheme(raw) == raw.scheme \notin { "", "http://", "https://" }

\* C28: an input whose scheme is neither http nor https is rejected by
\* normalizeUrlForStorage with an error: addLink gets no URL for it and stores no
\* link for it.
C28_OtherSchemesRejected ==
    \A s \in Slots :
        (UrlGiven(s) /\ OtherScheme(TypedUrl(s)))
            => /\ call[s].normalizedUrl = ""
               /\ call[s].result = NULL
               /\ call[s].pc = "done"
               /\ Resp(s).http = 400

\* the queries that have the parameters of `search` in some order
Reorderings(search) ==
    IF search = << >> THEN { << >> }
    ELSE { [i \in DOMAIN search |-> search[f[i]]] : f \in Permutations(DOMAIN search) }

\* the parameters of a query that have the given name, in the order of the query
WithName(search, name) == SelectSeq(search, LAMBDA p : p.key = name)

\* two queries have the parameters of each name in the same order
SameOrderPerName(q, r) ==
    \A name \in { p.key : p \in RawParams } : WithName(q, name) = WithName(r, name)

\* the names of a query are in alphabetical order
NamesSorted(search) ==
    \A i, j \in DOMAIN search : i < j => ~KeyLess(search[j].key, search[i].key)

\* C29 as stated: the parameters left are sorted by name, so two urls that differ
\* only in the order of their query parameters normalize to the same string.
C29_OrderInsensitive ==
    \A s \in Slots :
        (JustNormalized(s) /\ UrlAccepted(s)) =>
            LET raw == TypedUrl(s)
            IN  /\ NamesSorted(ReturnedUrl(Val(ParseUrl(raw))).search)
                /\ \A q \in Reorderings(raw.search) :
                       NormalizeRaw([raw EXCEPT !.search = q]).url = call[s].normalizedUrl

\* C29, amended: the parameters left are sorted by name, parameters of one name
\* staying in the order they were typed in, so two urls that differ only in the
\* order of their query parameters, and not in the order of the parameters of any
\* one name, normalize to the same string.
C29_OrderInsensitivePerName ==
    \A s \in Slots :
        (JustNormalized(s) /\ UrlAccepted(s)) =>
            LET raw == TypedUrl(s)
                returned == ReturnedUrl(Val(ParseUrl(raw))).search
            IN  /\ call[s].normalizedUrl = RenderUrl(ReturnedUrl(Val(ParseUrl(raw))))
                /\ NamesSorted(returned)
                /\ SameOrderPerName(returned, DeleteTracking(raw.search))
                /\ \A q \in Reorderings(raw.search) :
                       SameOrderPerName(q, raw.search) =>
                           NormalizeRaw([raw EXCEPT !.search = q]).url = call[s].normalizedUrl

\* a url typed with ?b=1&a=1 was normalized to the string that the url typed with
\* ?a=1&b=1 is normalized to, which has a before b
C29_Witness ==
    \E s \in Slots :
        /\ JustNormalized(s)
        /\ UrlAccepted(s)
        /\ TypedUrl(s).search = << P_B1, P_A1 >>
        /\ ReturnedUrl(Val(ParseUrl(TypedUrl(s)))).search = << P_A1, P_B1 >>
        /\ call[s].normalizedUrl
               = NormalizeRaw([TypedUrl(s) EXCEPT !.search = << P_A1, P_B1 >>]).url

\* the first n characters of a text, or the text when it has no more
Prefix(t, n) == [i \in 1..(IF Len(t) < n THEN Len(t) ELSE n) |-> t[i]]

\* the handler in slot s has built the text it hands to the summarizer
ExcerptBuilt(s) == call[s].handler = "runCheck" /\ call[s].summarizerInput # << >>

BlankTexts == { << >>, << " " >>, << "\n" >>, << " ", "\t", "\n", " " >> }

IsBlank(t) == \A i \in DOMAIN t : IsSpace(t[i])

\* the handler in slot s has called the summarizer with nothing meaningful
SummarizerCalledOnBlank(s) ==
    /\ call[s].summarizerCalls > 0
    /\ call[s].summarizerInput # << >>
    /\ \A i \in DOMAIN call[s].summarizerInput : IsBlank(call[s].summarizerInput[i])

\* C31: with no meaningful input (both the removed and the added text blank, or
\* the page text blank) the summarizer returns null, raises no error and makes no
\* model request: the guards take every blank text, and a handler that called the
\* summarizer on blank input goes on to its insert with a null summary and
\* without a model request.
C31_BlankInputNoRequest ==
    /\ \A removed \in BlankTexts, added \in BlankTexts : summarizeChangesSkips(removed, added)
    /\ \A pageText \in BlankTexts : summarizeInitialPageSkips(pageText)
    /\ \A s \in Slots :
           SummarizerCalledOnBlank(s) =>
               /\ call[s].modelOutcomes = << >>
               /\ call[s].delays = << >>
               /\ call[s].diffSummary = NULL
               /\ call[s].pc \in { "insert", "done" }
               /\ call[s].insertAttempts > 0 =>
                      \A i \in DOMAIN call[s].inserted : call[s].inserted[i].diff_summary = NULL
               /\ (call[s].pc = "done" /\ call[s].insertStorage = "up")
                      => Resp(s).http = 200

\* runCheck compared "alpha\nbeta" with "alpha beta", handed the summarizer an
\* empty removed text and an empty added text, and stored the check with no summary
C31_Witness ==
    \E s \in Slots :
        /\ SummarizerCalledOnBlank(s)
        /\ call[s].handler = "runCheck"
        /\ call[s].branch = "changed"
        /\ call[s].summarizerInput = << << >>, << >> >>
        /\ call[s].pc = "done"
        /\ Len(call[s].inserted) = 1
        /\ call[s].inserted[1].status = "success"
        /\ call[s].inserted[1].diff_summary = NULL

\* ------------------------------------------------------------------------
\* Text extraction (content-extractor.ts), under SpecExtract
\* ------------------------------------------------------------------------
\* text t has the characters of `piece` in a row
Contains(t, piece) ==
    \E i \in 1..(Len(t) - Len(piece) + 1) : SubSeq(t, i, i + Len(piece) - 1) = piece

\* the handler in slot s has just extracted the text of the page it fetched
JustExtracted(s) ==
    /\ call[s].extracted
    /\ call[s].pc \in { "loadLast", "saveError" }

\* the pages whose extraction gives text t
PagesGiving(t) == { page \in HtmlPages : extractReadableText(page) = t }

EMPTY_PAGE == [title |-> << >>, body |-> << >>]

C33_RejectedNeverRuns ==
    \A s \in Slots :
        call[s].handler = "middleware" =>
            /\ call[s].pc = "done"
            /\ Resp(s) = TooManyRequests
            /\ call[s].fetched = ""
            /\ call[s].summarizerCalls = 0
            /\ call[s].inserted = << >>
            /\ Len(link_checks) = call[s].priorCount

\* a request was rejected after an earlier one had stored a check
C33_Witness ==
    \E s \in Slots :
        /\ call[s].handler = "middleware"
        /\ Resp(s).http = 429
        /\ Len(link_checks) > 0

\* ------------------------------------------------------------------------
\* The cooldown of Check Now (components/LinkCard.tsx), under SpecCard
\* ------------------------------------------------------------------------
\* a step in which the card sends a check request
CheckStarted == card'.sent > card.sent

\* a step in which a check request comes back with a success response
CheckSucceeded == card.isChecking /\ ~card'.isChecking /\ card'.checkResult # NULL

\* a step in which the cooldown timer ticks
Ticked == card'.ticks > card.ticks

\* C34: in a LinkCard no check is started while one is in flight or while the
\* cooldown is above 0; a check that completes with a success response sets the
\* cooldown to 30; every one-second tick takes one from it; it is never below 0;
\* and 30 ticks after the success it is 0, with Check Now enabled again.
C34_Cooldown ==
    /\ [](/\ card.cooldown >= 0
          /\ card.isChecking => card.cooldown = 0
          /\ card.setBy = "success" =>
                 /\ card.cooldown + card.ticks = 30
                 /\ (card.ticks = 30 /\ ~card.isChecking) =>
                        (card.cooldown = 0 /\ ~CheckNowDisabled(card)))
    /\ [][/\ CheckStarted => (~card.isChecking /\ card.cooldown = 0 /\ card'.isChecking)
          /\ CheckSucceeded => card'.cooldown = 30
          /\ Ticked => (card.cooldown > 0 /\ card'.cooldown = card.cooldown - 1)
         ]_vars

\* the second check of a card is in flight: it was started when the 30 ticks after
\* the first one's success had passed
C34_Witness ==
    /\ card.sent = 2
    /\ card.isChecking
    /\ card.setBy = "success"
    /\ card.ticks = 30
    /\ card.cooldown = 0

\* ------------------------------------------------------------------------
\* C35 - at most one baseline Observation per link, and it comes first
\* ------------------------------------------------------------------------
\* the positions in link_checks of the link's rows of the given statuses
RowsWithStatus(id, statuses) ==
    { i \in DOMAIN link_checks :
          link_checks[i].link_id = id /\ link_checks[i].status \in statuses }

\* C35: each link has at most one row of status initial_baseline, and that row
\* precedes every no_change and every success row of the link, also when
\* several runCheck invocations of the link overlap.
C35_OneBaselineFirst ==
    \A id \in LinkIds :
        /\ Cardinality(RowsWithStatus(id, { "initial_baseline" })) <= 1
        /\ \A b \in RowsWithStatus(id, { "initial_baseline" }) :
               \A c \in RowsWithStatus(id, { "no_change", "success" }) : b < c

\* ------------------------------------------------------------------------
\* C36 - a failed read of the current state is not taken for "no prior check"
\* ------------------------------------------------------------------------
\* the request in slot s stores a baseline row in this step, after its read of
\* the link's current state had failed
BaselineAfterFailedRead(s) ==
    /\ call[s].handler = "runCheck"
    /\ call[s].read = "failed"
    /\ Len(call'[s].inserted) > Len(call[s].inserted)
    /\ call'[s].inserted[Len(call'[s].inserted)].status = "initial_baseline"

\* C36: a link that already has a non-failed row never gets a baseline row
\* because the read of its current state failed.
C36_FailedReadNoBaseline ==
    [][\A s \in Slots :
           BaselineAfterFailedRead(s)
               => RowsWithStatus(call[s].id, NonFailedStatuses) = {}]_vars

\* ------------------------------------------------------------------------
\* C37 - the history of runChecks that do not overlap is self-consistent
\* ------------------------------------------------------------------------
\* the position of the nearest non-failed row of the same link before row i
\* (0 when there is none)
NearestEarlier(i) ==
    LET hits == { j \in 1..(i - 1) :
                    /\ link_checks[j].link_id = link_checks[i].link_id
                    /\ link_checks[j].status \in NonFailedStatuses }
    IN  IF hits = {} THEN 0 ELSE CHOOSE j \in hits : \A k \in hits : k <= j

\* C37: with one runCheck after the other, every no_change row has the
\* fingerprint of the nearest earlier non-failed row of its link, and every
\* success row has an earlier non-failed row and a fingerprint different from
\* the nearest one's.
C37_HistoryConsistent ==
    \A i \in DOMAIN link_checks :
        link_checks[i].status \in { "no_change", "success" }
            => LET p == NearestEarlier(i)
               IN  /\ p > 0
                   /\ link_checks[i].status = "no_change"
                          => link_checks[i].content_hash = link_checks[p].content_hash
                   /\ link_checks[i].status = "success"
                          => link_checks[i].content_hash # link_checks[p].content_hash

\* a history with a changed row and a later unchanged one
C37_Witness ==
    \E i, j \in DOMAIN link_checks :
        /\ i < j
        /\ link_checks[i].status = "success"
        /\ link_checks[j].status = "no_change"

\* ------------------------------------------------------------------------
\* C38 - a changed outcome always has a change in its diff
\* ------------------------------------------------------------------------
\* C38: whenever runCheck finds the fingerprints different, the diff it computes
\* and returns has at least one added or removed segment and the summarizer is
\* handed a removed or an added text that is not empty, also when the two texts
\* differ only in whitespace.
C38_ChangedHasChange ==
    \A s \in Slots :
        (call[s].handler = "runCheck" /\ call[s].branch = "changed" /\ call[s].diff # NULL)
            => /\ \E i \in DOMAIN Val(call[s].diff) :
                      Val(call[s].diff)[i].added \/ Val(call[s].diff)[i].removed
               /\ \E i \in DOMAIN call[s].summarizerInput :
                      call[s].summarizerInput[i] # << >>
               /\ (call[s].pc = "done" /\ Resp(s).http = 200)
                      => Val(Resp(s).diff) = Val(call[s].diff)

\* ------------------------------------------------------------------------
\* C39 - normalizeUrlForStorage applied to its own result
\* ------------------------------------------------------------------------
\* new URL() of a string normalizeUrlForStorage returned, given the parts of that
\* string: a string that ends with the host name is read with the path "/"
Reparsed(r) == Some([r EXCEPT !.pathname = IF @ = << >> THEN << "/" >> ELSE @])

\* C39: for every url normalizeUrlForStorage accepts, normalizing the string it
\* returned gives that same string.
C39_Idempotent ==
    \A s \in Slots :
        (JustNormalized(s) /\ UrlAccepted(s)) =>
            LET r == ReturnedUrl(Val(ParseUrl(TypedUrl(s))))
                again == normalizeUrlForStorage(Reparsed(r))
            IN  /\ again.ok
                /\ again.url = call[s].normalizedUrl

\* ------------------------------------------------------------------------
\* C40 - the summarizer gives up after three 429s and the check is still stored
\* ------------------------------------------------------------------------
\* every one of the MAX_RETRIES + 1 model requests of slot s was answered 429
AllAttemptsRateLimited(s) ==
    LET o == call[s].modelOutcomes
    IN  /\ Len(o) = MAX_RETRIES + 1
        /\ \A i \in DOMAIN o : o[i].kind = "error" /\ o[i].has429

\* C40: when the model answers 429 on all 3 attempts the summarizer returns null
\* and raises nothing, and runCheck goes on to store the baseline or changed row
\* with a null summary: once storage has taken the request the row is recorded
\* and returned.
C40_GiveUpStillSaves ==
    \A s \in Slots :
        (call[s].handler = "runCheck" /\ AllAttemptsRateLimited(s))
            => /\ call[s].diffSummary = NULL
               /\ call[s].pc \in { "insert", "done" }
               /\ Len(call[s].delays) = MAX_RETRIES
               /\ call[s].branch \in { "baseline", "changed" }
               /\ (call[s].pc = "done" /\ call[s].insertStorage = "up")
                      => /\ Resp(s).http = 200
                         /\ Len(call[s].inserted) = 1
                         /\ call[s].inserted[1].status \in { "initial_baseline", "success" }
                         /\ call[s].inserted[1].diff_summary = NULL
                         /\ Resp(s).check = Some(call[s].inserted[1])
                         /\ \E i \in DOMAIN link_checks : link_checks[i] = call[s].inserted[1]

====
